---- MODULE Spec2Model ----
(***************************************************************************)
(* tdd-ratchet: the ratchet evaluator (src/src/ratchet.rs), the history    *)
(* rule checker (src/src/history.rs), the status ledger (src/src/status.rs)*)
(* the runner output parser (src/src/runner.rs) and the process driver     *)
(* (src/src/main.rs).                                                      *)
(*                                                                         *)
(* Strings are modelled as sequences of chunks (substrings): the test name *)
(* "m::tdd_ratchet_gatekeeper" is <<"m::", "tdd_ratchet_gatekeeper">>.     *)
(* Every chunk boundary of the names used here is a boundary of the        *)
(* gatekeeper identifier, so str::ends_with is the suffix test on chunks.  *)
(***************************************************************************)
EXTENDS Integers, Sequences, FiniteSets, TLC

VARIABLES
    pc,                 \* position of the process: "idle", or how the last process ended
    disk,               \* .test-status.json in the working tree
    status,             \* run_ratchet: the ledger loaded from disk (evaluate's `status`)
    results,            \* the test results of the run (evaluate's `results`)
    history_snapshots,  \* the snapshots of the run (evaluate's `history_snapshots`)
    violations,         \* EvalResult.violations of the run
    updated,            \* EvalResult.updated of the run
    exit_code,          \* exit status of the process that last ran
    initial,            \* history: names of the tests in the ledger the chain of runs started from
    wasPending,         \* history: names that were Pending in a ledger the tool produced
    has_baseline,       \* check_history_snapshots: argument `has_baseline`
    history_violations, \* the findings of check_history_snapshots
    commits,            \* the repository: the commits from the root to the head, each
                        \* with the ledger file of its tree
    walk,               \* the Result of the last call of collect_history_snapshots
    contents,           \* the text of the ledger file, as a JSON document
    loaded,             \* the Result of the last call of StatusFile::load
    stdout              \* the output of the test runner, line by line

vars == <<pc, disk, status, results, history_snapshots, violations, updated,
          exit_code, initial, wasPending, has_baseline, history_violations, commits, walk, contents, loaded, stdout>>

-----------------------------------------------------------------------------
(* Bounds *)

MaxResults == 2

MaxSnapshots == 3

\* The largest number of commits of a repository
MaxCommits == 3

\* The most lines a runner output has.
MaxLines == 2

-----------------------------------------------------------------------------
(* Data model *)

None == "None"

GATEKEEPER_TEST_NAME == <<"tdd_ratchet_gatekeeper">>

SCHEMA_URL == "https://tdd-ratchet.maxeonyx.com/schema/test-status.v1.json"

\* The test names of the model: two ordinary tests, the gatekeeper, and a
\* module-qualified test whose name ends with the gatekeeper identifier.
Names ==
    { <<"a">>, <<"b">>, <<"m::", "tdd_ratchet_gatekeeper">>, <<"tdd_ratchet_gatekeeper">> }

\* The order of String keys in a BTreeMap (byte-wise lexicographic).
NameOrder ==
    << <<"a">>, <<"b">>, <<"m::", "tdd_ratchet_gatekeeper">>, <<"tdd_ratchet_gatekeeper">> >>

\* Commit identifiers, opaque; CommitIds[i] is the i-th commit of a walk.
CommitIds == <<"c1", "c2", "c3", "c4">>

\* A commit identifier that no snapshot of the model carries.
UnseenCommit == "c0"

TestState == {"Pending", "Passing"}

TestOutcome == {"Passed", "Failed", "Ignored"}

TestResult == [name : Names, outcome : TestOutcome]

\* TestEntry::Simple(state)
Simple(s) == [state |-> s, baseline |-> None]

\* TestEntry::WithBaseline { state, baseline }
WithBaseline(s, b) == [state |-> s, baseline |-> b]

\* TestEntry::state()
state(entry) == entry.state

\* TestEntry::baseline()
baseline(entry) == entry.baseline

\* StatusFile::new
StatusFile(tests, base) == [schema |-> None, tests |-> tests, baseline |-> base]

\* The empty map.
EmptyMap == [n \in {} |-> None]

\* StatusFile::empty
empty == StatusFile(EmptyMap, None)

\* BTreeMap::insert
insert(map, k, v) == [n \in (DOMAIN map) \cup {k} |-> IF n = k THEN v ELSE map[n]]

\* BTreeMap::keys: the keys in ascending order
keys(map) == SelectSeq(NameOrder, LAMBDA n : n \in DOMAIN map)

\* str::ends_with
ends_with(s, suffix) ==
    /\ Len(s) >= Len(suffix)
    /\ SubSeq(s, Len(s) - Len(suffix) + 1, Len(s)) = suffix

\* Violation constructors
NewTestPassed(t) == [kind |-> "NewTestPassed", test |-> t, commit |-> None]

Regression(t) == [kind |-> "Regression", test |-> t, commit |-> None]

TestDisappeared(t) == [kind |-> "TestDisappeared", test |-> t, commit |-> None]

SkippedPending(t, c) == [kind |-> "SkippedPending", test |-> t, commit |-> c]

\* MissingGatekeeper names no test: its test field is the empty name
MissingGatekeeper == [kind |-> "MissingGatekeeper", test |-> <<>>, commit |-> None]

\* HistorySnapshot { commit, status }
HistorySnapshot(c, sf) == [commit |-> c, status |-> sf]

-----------------------------------------------------------------------------
(* history.rs: check_history_snapshots *)

\* first_snapshot_commit
first_snapshot_commit(snapshots, has_base) ==
    IF has_base /\ Len(snapshots) > 0 THEN snapshots[1].commit ELSE None

\* Variant of per_test_baselines: a test's baseline is taken from the newest
\* snapshot that records one for it
per_test_baselines_any(snapshots) ==
    LET with(n) == {i \in DOMAIN snapshots :
                        /\ n \in DOMAIN snapshots[i].status.tests
                        /\ baseline(snapshots[i].status.tests[n]) /= None}
        last(n) == CHOOSE i \in with(n) : \A j \in with(n) : j <= i
    IN  [n \in {m \in Names : with(m) /= {}} |-> baseline(snapshots[last(n)].status.tests[n])]

\* per_test_baselines: from the latest snapshot, the tests whose entry has a baseline
per_test_baselines(snapshots) ==
    IF Len(snapshots) = 0 THEN EmptyMap
    ELSE LET tests == snapshots[Len(snapshots)].status.tests
         IN  [n \in {m \in DOMAIN tests : baseline(tests[m]) /= None} |-> baseline(tests[n])]

\* commit_index: commit -> index; collecting into a map keeps the last index of a commit
commit_index(snapshots) ==
    [c \in {snapshots[i].commit : i \in DOMAIN snapshots} |->
        CHOOSE i \in DOMAIN snapshots :
            /\ snapshots[i].commit = c
            /\ \A j \in DOMAIN snapshots : snapshots[j].commit = c => j <= i]

\* Variant of is_global_grandfathered: the oldest snapshot grandfathers its
\* tests also when no baseline is configured
is_global_grandfathered_unconfigured(snapshots, has_base, snapshot) ==
    Len(snapshots) > 0 /\ snapshot.commit = snapshots[1].commit

\* is_global_grandfathered
is_global_grandfathered(snapshots, has_base, snapshot) ==
    LET first == first_snapshot_commit(snapshots, has_base)
    IN  first /= None /\ snapshot.commit = first

\* Variant of is_per_test_grandfathered: only a first appearance strictly
\* after the baseline commit is grandfathered
is_per_test_grandfathered_strict(snapshots, snapshot, test_name) ==
    LET ptbs == per_test_baselines(snapshots)
        idx  == commit_index(snapshots)
    IN  /\ test_name \in DOMAIN ptbs
        /\ IF snapshot.commit \in DOMAIN idx
             THEN IF ptbs[test_name] \in DOMAIN idx
                    THEN idx[snapshot.commit] > idx[ptbs[test_name]]
                    ELSE TRUE
             ELSE FALSE

\* Variant of is_per_test_grandfathered: a baseline commit that has no snapshot
\* grandfathers nothing
is_per_test_grandfathered_known_only(snapshots, snapshot, test_name) ==
    LET ptbs == per_test_baselines(snapshots)
        idx  == commit_index(snapshots)
    IN  /\ test_name \in DOMAIN ptbs
        /\ IF snapshot.commit \in DOMAIN idx
             THEN IF ptbs[test_name] \in DOMAIN idx
                    THEN idx[snapshot.commit] >= idx[ptbs[test_name]]
                    ELSE FALSE
             ELSE FALSE

\* is_per_test_grandfathered
is_per_test_grandfathered(snapshots, snapshot, test_name) ==
    LET ptbs == per_test_baselines(snapshots)
        idx  == commit_index(snapshots)
    IN  /\ test_name \in DOMAIN ptbs
        /\ IF snapshot.commit \in DOMAIN idx
             THEN IF ptbs[test_name] \in DOMAIN idx
                    THEN idx[snapshot.commit] >= idx[ptbs[test_name]]
                    ELSE TRUE
             ELSE FALSE

\* Variant of history_visit: every appearance of a test is judged, not only the first
history_visit_every(snapshots, has_base, acc, snapshot, test_name) ==
    LET st   == state(snapshot.status.tests[test_name])
        seen == acc.first_seen \cup {test_name}
    IN  IF st /= "Passing" THEN [acc EXCEPT !.first_seen = seen]
        ELSE IF /\ ~is_global_grandfathered(snapshots, has_base, snapshot)
                /\ ~is_per_test_grandfathered(snapshots, snapshot, test_name)
                /\ ~ends_with(test_name, GATEKEEPER_TEST_NAME)
               THEN [first_seen |-> seen,
                     violations |-> Append(acc.violations,
                                           SkippedPending(test_name, snapshot.commit))]
               ELSE [acc EXCEPT !.first_seen = seen]

\* Variant of history_visit: a test is recorded as seen only after the state
\* test, so a Pending first appearance leaves it unseen
history_visit_pending_unseen(snapshots, has_base, acc, snapshot, test_name) ==
    IF test_name \in acc.first_seen THEN acc
    ELSE LET st   == state(snapshot.status.tests[test_name])
             seen == acc.first_seen \cup {test_name}
         IN  IF st /= "Passing" THEN acc
             ELSE IF /\ ~is_global_grandfathered(snapshots, has_base, snapshot)
                     /\ ~is_per_test_grandfathered(snapshots, snapshot, test_name)
                     /\ ~ends_with(test_name, GATEKEEPER_TEST_NAME)
                    THEN [first_seen |-> seen,
                          violations |-> Append(acc.violations,
                                                SkippedPending(test_name, snapshot.commit))]
                    ELSE [acc EXCEPT !.first_seen = seen]

\* Variant of history_visit: the gatekeeper test is judged as any other test
history_visit_gatekeeper_judged(snapshots, has_base, acc, snapshot, test_name) ==
    IF test_name \in acc.first_seen THEN acc
    ELSE LET st   == state(snapshot.status.tests[test_name])
             seen == acc.first_seen \cup {test_name}
         IN  IF st /= "Passing" THEN [acc EXCEPT !.first_seen = seen]
             ELSE IF /\ ~is_global_grandfathered(snapshots, has_base, snapshot)
                     /\ ~is_per_test_grandfathered(snapshots, snapshot, test_name)
                    THEN [first_seen |-> seen,
                          violations |-> Append(acc.violations,
                                                SkippedPending(test_name, snapshot.commit))]
                    ELSE [acc EXCEPT !.first_seen = seen]

\* The body of the inner loop: one (snapshot, test) pair.
\* acc = [first_seen : names already seen, violations : Seq]
history_visit(snapshots, has_base, acc, snapshot, test_name) ==
    IF test_name \in acc.first_seen THEN acc
    ELSE LET st   == state(snapshot.status.tests[test_name])
             seen == acc.first_seen \cup {test_name}
         IN  IF st /= "Passing" THEN [acc EXCEPT !.first_seen = seen]
             ELSE IF /\ ~is_global_grandfathered(snapshots, has_base, snapshot)
                     /\ ~is_per_test_grandfathered(snapshots, snapshot, test_name)
                     /\ ~ends_with(test_name, GATEKEEPER_TEST_NAME)
                    THEN [first_seen |-> seen,
                          violations |-> Append(acc.violations,
                                                SkippedPending(test_name, snapshot.commit))]
                    ELSE [acc EXCEPT !.first_seen = seen]

\* The inner loop: the tests of one snapshot, in key order, from position k.
RECURSIVE history_tests(_, _, _, _, _, _)
history_tests(snapshots, has_base, acc, snapshot, names, k) ==
    IF k > Len(names) THEN acc
    ELSE history_tests(snapshots, has_base,
                       history_visit(snapshots, has_base, acc, snapshot, names[k]),
                       snapshot, names, k + 1)

\* The outer loop: the snapshots from position i.
RECURSIVE history_loop(_, _, _, _)
history_loop(snapshots, has_base, acc, i) ==
    IF i > Len(snapshots) THEN acc
    ELSE history_loop(snapshots, has_base,
                      history_tests(snapshots, has_base, acc, snapshots[i],
                                    keys(snapshots[i].status.tests), 1),
                      i + 1)

check_history_snapshots(snapshots, has_base) ==
    history_loop(snapshots, has_base, [first_seen |-> {}, violations |-> <<>>], 1).violations

-----------------------------------------------------------------------------
(* history.rs: collect_history_snapshots *)

\* Result<_, git2::Error>: Ok(value)
Ok(value) == [ok |-> TRUE, value |-> value, error |-> [kind |-> None, commit |-> None]]

\* Result<_, git2::Error>: Err(error), the message naming a commit or none
Err(kind, c) == [ok |-> FALSE, value |-> <<>>, error |-> [kind |-> kind, commit |-> c]]

\* No call of collect_history_snapshots yet
NotCalled == Err("not called", None)

\* A commit of the repository: its id and the .test-status.json of its tree
Commit(c, file) == [commit |-> c, file |-> file]

\* A baseline that is not the hexadecimal id of an object
MalformedOid == "not-an-oid"

\* git2::Oid::from_str
Oid_from_str(b) == IF b = MalformedOid THEN Err("oid", None) ELSE Ok(b)

\* Variant of status_file_at_commit: a ledger that does not parse is taken
\* as no ledger
status_file_at_commit_lenient(c) ==
    IF ~c.file.exists \/ ~c.file.parseable THEN Ok(<<>>)
    ELSE Ok(<<HistorySnapshot(c.commit, c.file.content)>>)

\* status_file_at_commit, with the snapshot(s) to push as the value: none
\* for Ok(None), one for Ok(Some(sf))
status_file_at_commit(c) ==
    IF ~c.file.exists THEN Ok(<<>>)
    ELSE IF ~c.file.parseable THEN Err("parse", c.commit)
    ELSE Ok(<<HistorySnapshot(c.commit, c.file.content)>>)

\* for oid_result in revwalk { ... }, oldest commit first, from position i
RECURSIVE revwalk_loop(_, _, _, _, _)
revwalk_loop(repo, baseline_oid, past_baseline, snapshots, i) ==
    IF i > Len(repo) THEN Ok(snapshots)
    ELSE IF ~past_baseline
    THEN IF repo[i].commit = baseline_oid
         THEN LET sf == status_file_at_commit(repo[i])
              IN  IF ~sf.ok THEN sf
                  ELSE revwalk_loop(repo, baseline_oid, TRUE, snapshots \o sf.value, i + 1)
         ELSE revwalk_loop(repo, baseline_oid, FALSE, snapshots, i + 1)
    ELSE LET sf == status_file_at_commit(repo[i])
         IN  IF ~sf.ok THEN sf
             ELSE revwalk_loop(repo, baseline_oid, TRUE, snapshots \o sf.value, i + 1)

\* Variant of collect_history_snapshots: the walk starts after the baseline
\* commit
collect_history_snapshots_exclusive(repo, base) ==
    IF repo = <<>> THEN Err("head", None)
    ELSE LET baseline_oid == IF base = None THEN Ok(None) ELSE Oid_from_str(base)
         IN  IF ~baseline_oid.ok THEN baseline_oid
             ELSE LET r == revwalk_loop(repo, baseline_oid.value, base = None, <<>>, 1)
                  IN  IF r.ok /\ r.value /= <<>> /\ r.value[1].commit = base
                      THEN Ok(Tail(r.value))
                      ELSE r

\* collect_history_snapshots: push_head fails on a repository without a
\* commit, Oid::from_str on a malformed baseline
collect_history_snapshots(repo, base) ==
    IF repo = <<>> THEN Err("head", None)
    ELSE LET baseline_oid == IF base = None THEN Ok(None) ELSE Oid_from_str(base)
         IN  IF ~baseline_oid.ok THEN baseline_oid
             ELSE revwalk_loop(repo, baseline_oid.value, base = None, <<>>, 1)

-----------------------------------------------------------------------------
(* status.rs: the ledger file as a JSON document *)

\* A JSON string where a test entry is expected
JString(s) == [form |-> "string", keys |-> {}, state |-> s, baseline |-> None]

\* A JSON object where a test entry is expected, with the keys it has
JObject(ks, s, b) == [form |-> "object", keys |-> ks, state |-> s, baseline |-> b]

\* A JSON object at the top level, with the keys it has
JDocument(ks, schema, tests, base) ==
    [json |-> TRUE, keys |-> ks, schema |-> schema, tests |-> tests, baseline |-> base]

\* Text that is not JSON
NotJson == [json |-> FALSE, keys |-> {}, schema |-> None, tests |-> EmptyMap, baseline |-> None]

\* #[serde(rename_all = "lowercase")] on TestState, serializing
TestState_serialize(st) == IF st = "Pending" THEN "pending" ELSE "passing"

\* #[serde(rename_all = "lowercase")] on TestState, deserializing
TestState_deserialize(s) ==
    IF s = "pending" THEN Ok("Pending")
    ELSE IF s = "passing" THEN Ok("Passing")
    ELSE Err("parse", None)

\* TestEntry, serializing: the bare state without a baseline, an object with one
TestEntry_serialize(e) ==
    IF baseline(e) = None THEN JString(TestState_serialize(state(e)))
    ELSE JObject({"state", "baseline"}, TestState_serialize(state(e)), baseline(e))

\* TestEntry, deserializing: a state string, or an object with exactly the
\* keys state and baseline
TestEntry_deserialize(j) ==
    LET st == TestState_deserialize(j.state)
    IN  IF ~st.ok THEN st
        ELSE IF j.form = "string" THEN Ok(Simple(st.value))
        ELSE IF j.keys = {"state", "baseline"} THEN Ok(WithBaseline(st.value, j.baseline))
        ELSE Err("parse", None)

\* Variant of to_string_pretty: every entry is written as its bare state
to_string_pretty_bare(sf) ==
    JDocument({"tests"} \cup (IF sf.schema /= None THEN {"$schema"} ELSE {})
                        \cup (IF sf.baseline /= None THEN {"baseline"} ELSE {}),
              sf.schema,
              [n \in DOMAIN sf.tests |-> JString(TestState_serialize(state(sf.tests[n])))],
              sf.baseline)

\* serde_json::to_string_pretty of a StatusFile: $schema and baseline are
\* skipped when None
to_string_pretty(sf) ==
    JDocument({"tests"} \cup (IF sf.schema /= None THEN {"$schema"} ELSE {})
                        \cup (IF sf.baseline /= None THEN {"baseline"} ELSE {}),
              sf.schema,
              [n \in DOMAIN sf.tests |-> TestEntry_serialize(sf.tests[n])],
              sf.baseline)

\* Variant of from_str: unknown top-level keys are ignored
from_str_open(doc) ==
    IF ~doc.json THEN Err("parse", None)
    ELSE IF "tests" \notin doc.keys THEN Err("parse", None)
    ELSE IF \E n \in DOMAIN doc.tests : ~TestEntry_deserialize(doc.tests[n]).ok
    THEN Err("parse", None)
    ELSE Ok([schema   |-> IF "$schema" \in doc.keys THEN doc.schema ELSE None,
             tests    |-> [n \in DOMAIN doc.tests |-> TestEntry_deserialize(doc.tests[n]).value],
             baseline |-> IF "baseline" \in doc.keys THEN doc.baseline ELSE None])

\* serde_json::from_str::<StatusFile>: deny_unknown_fields, tests required,
\* $schema and baseline default to None
from_str(doc) ==
    IF ~doc.json THEN Err("parse", None)
    ELSE IF ~(doc.keys \subseteq {"$schema", "tests", "baseline"}) THEN Err("parse", None)
    ELSE IF "tests" \notin doc.keys THEN Err("parse", None)
    ELSE IF \E n \in DOMAIN doc.tests : ~TestEntry_deserialize(doc.tests[n]).ok
    THEN Err("parse", None)
    ELSE Ok([schema   |-> IF "$schema" \in doc.keys THEN doc.schema ELSE None,
             tests    |-> [n \in DOMAIN doc.tests |-> TestEntry_deserialize(doc.tests[n]).value],
             baseline |-> IF "baseline" \in doc.keys THEN doc.baseline ELSE None])

-----------------------------------------------------------------------------
(* runner.rs: parse_nextest_output *)

\* A line of the runner's output that is not a JSON object
Text == [json |-> FALSE, keys |-> {}, type |-> None, event |-> None, name |-> <<>>]

\* A line that is a JSON object with the given keys; name is a sequence of
\* pieces of text, the piece "$" standing for the character
Event(ks, type, event, name) ==
    [json |-> TRUE, keys |-> ks, type |-> type, event |-> event, name |-> name]

\* serde_json::from_str::<TestEvent>: type and event are required, name is
\* optional, other keys are ignored
TestEvent(line) ==
    IF line.json /\ {"type", "event"} \subseteq line.keys
    THEN Ok([kind  |-> line.type,
             event |-> line.event,
             name  |-> IF "name" \in line.keys THEN Ok(line.name) ELSE Err(None, None)])
    ELSE Err("parse", None)

\* Variant of split_once: the text after the last "$"
rsplit_once(full_name) ==
    IF \E i \in DOMAIN full_name : full_name[i] = "$"
    THEN LET i == CHOOSE j \in DOMAIN full_name :
                      /\ full_name[j] = "$"
                      /\ \A k \in DOMAIN full_name : full_name[k] = "$" => k <= j
         IN  Ok(SubSeq(full_name, i + 1, Len(full_name)))
    ELSE Err(None, None)

\* full_name.split_once('$'): the text after the first "$", if there is one
split_once(full_name) ==
    IF \E i \in DOMAIN full_name : full_name[i] = "$"
    THEN LET i == CHOOSE j \in DOMAIN full_name :
                      /\ full_name[j] = "$"
                      /\ \A k \in DOMAIN full_name : full_name[k] = "$" => j <= k
         IN  Ok(SubSeq(full_name, i + 1, Len(full_name)))
    ELSE Err(None, None)

\* The body of parse_nextest_output's loop: the results one line pushes
parse_line(line) ==
    LET event == TestEvent(line)
    IN  IF ~event.ok THEN <<>>
        ELSE IF event.value.kind /= "test" THEN <<>>
        ELSE IF event.value.event \notin {"ok", "failed", "ignored"} THEN <<>>
        ELSE IF ~event.value.name.ok THEN <<>>
        ELSE LET outcome   == CASE event.value.event = "ok" -> "Passed"
                                [] event.value.event = "failed" -> "Failed"
                                [] event.value.event = "ignored" -> "Ignored"
                 full_name == event.value.name.value
                 name      == IF split_once(full_name).ok
                              THEN split_once(full_name).value
                              ELSE full_name
             IN  <<[name |-> name, outcome |-> outcome]>>

RECURSIVE parse_nextest_output(_)
\* parse_nextest_output: the results of the lines, in the order of the lines
parse_nextest_output(output) ==
    IF output = <<>> THEN <<>>
    ELSE parse_line(Head(output)) \o parse_nextest_output(Tail(output))

-----------------------------------------------------------------------------
(* ratchet.rs: evaluate *)

\* Variant of has_gatekeeper: only a gatekeeper that passed counts as present
has_gatekeeper_passed(res) ==
    \E i \in DOMAIN res :
        ends_with(res[i].name, GATEKEEPER_TEST_NAME) /\ res[i].outcome = "Passed"

\* has_gatekeeper
has_gatekeeper(res) ==
    \E i \in DOMAIN res : ends_with(res[i].name, GATEKEEPER_TEST_NAME)

\* Variant of seen_names: only the tests that ran, not the ignored ones
seen_names_ran(res) == {res[i].name : i \in {j \in DOMAIN res : res[j].outcome /= "Ignored"}}

\* seen_names
seen_names(res) == {res[i].name : i \in DOMAIN res}

\* The arms of the match, each from acc = [violations : Seq, updated : StatusFile]
\* Variant of new_test_failed: the new failing test is not recorded
new_test_failed_untracked(acc, result) == acc

\* Variant of new_test_failed: the new failing test is recorded as Passing
new_test_failed_as_passing(acc, result) ==
    [acc EXCEPT !.updated.tests = insert(@, result.name, Simple("Passing"))]

\* (None, Failed)
new_test_failed(acc, result) ==
    [acc EXCEPT !.updated.tests = insert(@, result.name, Simple("Pending"))]

\* Variant of new_test_passed: without the gatekeeper test, any new test may pass
new_test_passed_unchecked(acc, result) ==
    [acc EXCEPT !.updated.tests = insert(@, result.name, Simple("Passing"))]

\* Variant of new_test_passed: without the gatekeeper exception
new_test_passed_strict(acc, result) ==
    [acc EXCEPT !.violations = Append(@, NewTestPassed(result.name))]

\* (None, Passed)
new_test_passed(acc, result) ==
    IF ends_with(result.name, GATEKEEPER_TEST_NAME)
      THEN [acc EXCEPT !.updated.tests = insert(@, result.name, Simple("Passing"))]
      ELSE [acc EXCEPT !.violations = Append(@, NewTestPassed(result.name))]

\* (None, Ignored)
new_test_ignored(acc, result) == acc

\* (Some(Pending), Failed)
pending_failed(acc, result) == acc

\* Variant of pending_passed: no promotion
pending_passed_kept(acc, result) == acc

\* (Some(Pending), Passed)
pending_passed(acc, result) ==
    [acc EXCEPT !.updated.tests = insert(@, result.name, Simple("Passing"))]

\* (Some(Pending), Ignored)
pending_ignored(acc, result) == acc

\* Variant of passing_passed: a passing test that passes is set back to Pending
passing_passed_resets(acc, result) ==
    [acc EXCEPT !.updated.tests = insert(@, result.name, Simple("Pending"))]

\* (Some(Passing), Passed)
passing_passed(acc, result) == acc

\* Variant of passing_failed: the regression is also recorded in the ledger
passing_failed_demotes(acc, result) ==
    [violations |-> Append(acc.violations, Regression(result.name)),
     updated |-> [acc.updated EXCEPT !.tests = insert(@, result.name, Simple("Pending"))]]

\* Variant of passing_failed: the regression is not reported
passing_failed_silent(acc, result) == acc

\* (Some(Passing), Failed)
passing_failed(acc, result) ==
    [acc EXCEPT !.violations = Append(@, Regression(result.name))]

\* Variant of passing_ignored: a test that did not run counts as failed
passing_ignored_regresses(acc, result) ==
    [acc EXCEPT !.violations = Append(@, Regression(result.name))]

\* (Some(Passing), Ignored)
passing_ignored(acc, result) == acc

\* Variant of transition: the result is matched against the ledger as updated
\* so far, not against the prior ledger
transition_on_updated(st, acc, result) ==
    LET prior == IF result.name \in DOMAIN acc.updated.tests
                   THEN state(acc.updated.tests[result.name]) ELSE None
    IN  CASE prior = None /\ result.outcome = "Failed" -> new_test_failed(acc, result)
          [] prior = None /\ result.outcome = "Passed" -> new_test_passed(acc, result)
          [] prior = None /\ result.outcome = "Ignored" -> new_test_ignored(acc, result)
          [] prior = "Pending" /\ result.outcome = "Failed" -> pending_failed(acc, result)
          [] prior = "Pending" /\ result.outcome = "Passed" -> pending_passed(acc, result)
          [] prior = "Pending" /\ result.outcome = "Ignored" -> pending_ignored(acc, result)
          [] prior = "Passing" /\ result.outcome = "Passed" -> passing_passed(acc, result)
          [] prior = "Passing" /\ result.outcome = "Failed" -> passing_failed(acc, result)
          [] prior = "Passing" /\ result.outcome = "Ignored" -> passing_ignored(acc, result)

\* The match of the per-result loop: one result against the prior ledger `st`.
transition(st, acc, result) ==
    LET prior == IF result.name \in DOMAIN st.tests
                   THEN state(st.tests[result.name]) ELSE None
    IN  CASE prior = None /\ result.outcome = "Failed" -> new_test_failed(acc, result)
          [] prior = None /\ result.outcome = "Passed" -> new_test_passed(acc, result)
          [] prior = None /\ result.outcome = "Ignored" -> new_test_ignored(acc, result)
          [] prior = "Pending" /\ result.outcome = "Failed" -> pending_failed(acc, result)
          [] prior = "Pending" /\ result.outcome = "Passed" -> pending_passed(acc, result)
          [] prior = "Pending" /\ result.outcome = "Ignored" -> pending_ignored(acc, result)
          [] prior = "Passing" /\ result.outcome = "Passed" -> passing_passed(acc, result)
          [] prior = "Passing" /\ result.outcome = "Failed" -> passing_failed(acc, result)
          [] prior = "Passing" /\ result.outcome = "Ignored" -> passing_ignored(acc, result)

\* for result in results { ... }
RECURSIVE transitions(_, _, _, _)
transitions(st, acc, res, i) ==
    IF i > Len(res) THEN acc
    ELSE transitions(st, transition(st, acc, res[i]), res, i + 1)

\* for name in status.tests.keys() { if !seen_names.contains(name) ... }
RECURSIVE disappeared(_, _, _, _)
disappeared(viol, names, seen, k) ==
    IF k > Len(names) THEN viol
    ELSE disappeared(IF names[k] \notin seen
                       THEN Append(viol, TestDisappeared(names[k])) ELSE viol,
                     names, seen, k + 1)

\* HistoryViolation::SkippedPending -> Violation::SkippedPending, appended in order
fold_history(viol, hvs) == viol \o hvs

\* Variant of evaluate: the entry of a test that no result names is dropped
\* from the updated ledger
evaluate_forgets(st, res, snapshots) ==
    LET v0 == IF ~has_gatekeeper(res) THEN <<MissingGatekeeper>> ELSE <<>>
        a1 == transitions(st, [violations |-> v0, updated |-> st], res, 1)
        v2 == disappeared(a1.violations, keys(st.tests), seen_names(res), 1)
        v3 == fold_history(v2, check_history_snapshots(snapshots, st.baseline /= None))
    IN  [violations |-> v3,
         updated    |-> [a1.updated EXCEPT
                           !.tests = [n \in DOMAIN a1.updated.tests \cap seen_names(res)
                                         |-> a1.updated.tests[n]]]]

\* Variant of evaluate: a missing gatekeeper ends the evaluation at once
evaluate_fail_fast(st, res, snapshots) ==
    LET v0 == IF ~has_gatekeeper(res) THEN <<MissingGatekeeper>> ELSE <<>>
        a1 == transitions(st, [violations |-> v0, updated |-> st], res, 1)
        v2 == disappeared(a1.violations, keys(st.tests), seen_names(res), 1)
        v3 == fold_history(v2, check_history_snapshots(snapshots, st.baseline /= None))
    IN  IF v0 /= <<>> THEN [violations |-> v0, updated |-> st]
        ELSE [violations |-> v3, updated |-> a1.updated]

\* Variant of evaluate: the updated ledger is built anew from the tests, so
\* the ledger-wide baseline is not carried over
evaluate_rebuilds(st, res, snapshots) ==
    LET v0 == IF ~has_gatekeeper(res) THEN <<MissingGatekeeper>> ELSE <<>>
        a1 == transitions(st, [violations |-> v0, updated |-> st], res, 1)
        v2 == disappeared(a1.violations, keys(st.tests), seen_names(res), 1)
        v3 == fold_history(v2, check_history_snapshots(snapshots, st.baseline /= None))
    IN  [violations |-> v3, updated |-> StatusFile(a1.updated.tests, None)]

\* Variant of evaluate: the ledger is updated only when nothing is violated
evaluate_all_or_nothing(st, res, snapshots) ==
    LET v0 == IF ~has_gatekeeper(res) THEN <<MissingGatekeeper>> ELSE <<>>
        a1 == transitions(st, [violations |-> v0, updated |-> st], res, 1)
        v2 == disappeared(a1.violations, keys(st.tests), seen_names(res), 1)
        v3 == fold_history(v2, check_history_snapshots(snapshots, st.baseline /= None))
    IN  [violations |-> v3, updated |-> IF v3 = <<>> THEN a1.updated ELSE st]

evaluate(st, res, snapshots) ==
    LET v0 == IF ~has_gatekeeper(res) THEN <<MissingGatekeeper>> ELSE <<>>
        a1 == transitions(st, [violations |-> v0, updated |-> st], res, 1)
        v2 == disappeared(a1.violations, keys(st.tests), seen_names(res), 1)
        v3 == fold_history(v2, check_history_snapshots(snapshots, st.baseline /= None))
    IN  [violations |-> v3, updated |-> a1.updated]

-----------------------------------------------------------------------------
(* ratchet.rs: check_ratchet *)

\* RatchetViolation::NewTestPassed, Regression, TestDisappeared { test }
RatchetViolation(kind, t) == [kind |-> kind, test |-> t]

\* The match of check_ratchet's loop over the results.
\* acc = [violations : Seq, updated : StatusFile]
check_ratchet_match(st, acc, result) ==
    LET prior == IF result.name \in DOMAIN st.tests
                   THEN state(st.tests[result.name]) ELSE None
        name  == result.name
    IN  CASE prior = None /\ result.outcome = "Failed" ->
                 [acc EXCEPT !.updated.tests = insert(@, name, Simple("Pending"))]
          [] prior = None /\ result.outcome = "Passed" ->
                 IF ends_with(name, GATEKEEPER_TEST_NAME)
                 THEN [acc EXCEPT !.updated.tests = insert(@, name, Simple("Passing"))]
                 ELSE [acc EXCEPT !.violations =
                                      Append(@, RatchetViolation("NewTestPassed", name))]
          [] prior = "Pending" /\ result.outcome = "Passed" ->
                 [acc EXCEPT !.updated.tests = insert(@, name, Simple("Passing"))]
          [] prior = "Passing" /\ result.outcome = "Failed" ->
                 [acc EXCEPT !.violations = Append(@, RatchetViolation("Regression", name))]
          [] OTHER -> acc

\* for result in results { ... } of check_ratchet
RECURSIVE check_ratchet_loop(_, _, _, _)
check_ratchet_loop(st, acc, res, i) ==
    IF i > Len(res) THEN acc
    ELSE check_ratchet_loop(st, check_ratchet_match(st, acc, res[i]), res, i + 1)

\* Variant of check_ratchet: the prior ledger is returned as the updated one
check_ratchet_read_only(st, res) ==
    LET a    == check_ratchet_loop(st, [violations |-> <<>>, updated |-> st], res, 1)
        gone == SelectSeq(keys(st.tests), LAMBDA n : n \notin {res[i].name : i \in DOMAIN res})
    IN  [violations |-> a.violations
                          \o [i \in DOMAIN gone |-> RatchetViolation("TestDisappeared", gone[i])],
         updated    |-> st]

\* check_ratchet: the per-rule check without history or gatekeeper
check_ratchet(st, res) ==
    LET a    == check_ratchet_loop(st, [violations |-> <<>>, updated |-> st], res, 1)
        gone == SelectSeq(keys(st.tests), LAMBDA n : n \notin {res[i].name : i \in DOMAIN res})
    IN  [violations |-> a.violations
                          \o [i \in DOMAIN gone |-> RatchetViolation("TestDisappeared", gone[i])],
         updated    |-> a.updated]

-----------------------------------------------------------------------------
(* status.rs: load and save; main.rs: the process driver *)

\* StatusFile::save: the content written, always carrying the schema key
save(sf) == [sf EXCEPT !.schema = SCHEMA_URL]

\* The ledger file in the working tree
File(sf) == [exists |-> TRUE, parseable |-> TRUE, content |-> sf]

\* No ledger file in the working tree
Missing == [exists |-> FALSE, parseable |-> FALSE, content |-> empty]

\* A ledger file that StatusFile::load rejects
Unparseable == [exists |-> TRUE, parseable |-> FALSE, content |-> empty]

\* A map from a set of <<name, entry>> pairs with distinct names
MapOf(pairs) == [n \in {p[1] : p \in pairs} |-> (CHOOSE p \in pairs : p[1] = n)[2]]

\* The result lists a test run can produce: at most MaxResults entries, a
\* name may occur more than once (two test binaries with a test of one name).
ResultLists == UNION {[1..n -> TestResult] : n \in 0..MaxResults}

\* Ledgers that exist before the first run of the model: written by hand
\* or by an earlier version, some with per-test baselines.
SeedLedgers ==
    { StatusFile(EmptyMap, None),
      StatusFile(MapOf({ << <<"a">>, WithBaseline("Passing", "c1") >>,
                         << <<"b">>, Simple("Pending") >> }), None),
      save(StatusFile(MapOf({ << <<"a">>, WithBaseline("Pending", "c2") >>,
                              << <<"tdd_ratchet_gatekeeper">>, Simple("Passing") >> }), "c1")) }

\* What collect_history_snapshots can return to a run: no snapshot, or two
\* snapshots whose tests are Passing at their first appearance.
HistoryInputs ==
    { <<>>,
      << HistorySnapshot("c1", save(StatusFile(MapOf({ << <<"a">>, Simple("Passing") >> }), None))),
         HistorySnapshot("c2", save(StatusFile(MapOf({ << <<"a">>, Simple("Passing") >>,
                                                        << <<"b">>, Simple("Passing") >> }), None))) >> }

\* get_head_commit: the head commit, or None when `git rev-parse HEAD` fails
get_head_commit(repo) == IF repo = <<>> THEN None ELSE repo[Len(repo)].commit

\* init: the ledger built from the suite's current outcomes, from position i
RECURSIVE init_tests(_, _, _)
init_tests(tests, res, i) ==
    IF i > Len(res) THEN tests
    ELSE init_tests(IF res[i].outcome = "Ignored" THEN tests
                    ELSE insert(tests, res[i].name,
                                Simple(IF res[i].outcome = "Passed" THEN "Passing" ELSE "Pending")),
                    res, i + 1)

PendingNames(sf) == {n \in DOMAIN sf.tests : state(sf.tests[n]) = "Pending"}

Cleared ==
    /\ status' = empty
    /\ results' = <<>>
    /\ history_snapshots' = <<>>
    /\ violations' = <<>>
    /\ updated' = empty
    /\ has_baseline' = FALSE
    /\ history_violations' = <<>>

\* main: a new process starts; nothing of the previous process's memory remains
main ==
    /\ pc \in {"init_done", "init_refused", "init_save_failed",
                "run_done", "run_aborted", "run_save_failed"}
    /\ pc' = "idle"
    /\ exit_code' = None
    /\ Cleared
    /\ UNCHANGED <<disk, initial, wasPending, commits, walk, contents, loaded, stdout>>

\* Variant of init_refused: init builds a new ledger over the existing one
init_refused_reinitializes ==
    /\ pc = "idle"
    /\ disk.exists
    /\ pc' = "init_done"
    /\ exit_code' = "success"
    /\ Cleared
    /\ disk' = File(save(StatusFile(EmptyMap, get_head_commit(commits))))
    /\ UNCHANGED <<initial, wasPending, commits, walk, contents, loaded, stdout>>

\* init, when .test-status.json already exists
init_refused ==
    /\ pc = "idle"
    /\ disk.exists
    /\ pc' = "init_refused"
    /\ exit_code' = "failure"
    /\ Cleared
    /\ UNCHANGED <<disk, initial, wasPending, commits, walk, contents, loaded, stdout>>

\* Variant of init_with: the head commit is not recorded
init_with_no_baseline(res) ==
    /\ LET sf == [empty EXCEPT !.tests = init_tests(EmptyMap, res, 1)]
       IN  /\ disk' = File(save(sf))
           /\ initial' = DOMAIN sf.tests
           /\ wasPending' = PendingNames(sf)
           /\ status' = sf
    /\ results' = res
    /\ pc' = "init_done"
    /\ exit_code' = "success"
    /\ history_snapshots' = <<>>
    /\ violations' = <<>>
    /\ updated' = empty
    /\ has_baseline' = FALSE
    /\ history_violations' = <<>>
    /\ UNCHANGED <<commits, walk, contents, loaded, stdout>>

\* init past the existence check, the suite giving the results res (none when
\* cargo cannot be run): the outcomes are snapshot into a new ledger with the
\* head commit as baseline, and the ledger is saved
init_with(res) ==
    /\ LET sf == [empty EXCEPT !.baseline = get_head_commit(commits),
                               !.tests = init_tests(EmptyMap, res, 1)]
       IN  /\ disk' = File(save(sf))
           /\ initial' = DOMAIN sf.tests
           /\ wasPending' = PendingNames(sf)
           /\ status' = sf
    /\ results' = res
    /\ pc' = "init_done"
    /\ exit_code' = "success"
    /\ history_snapshots' = <<>>
    /\ violations' = <<>>
    /\ updated' = empty
    /\ has_baseline' = FALSE
    /\ history_violations' = <<>>
    /\ UNCHANGED <<commits, walk, contents, loaded, stdout>>

\* init
init ==
    /\ pc = "idle"
    /\ ~disk.exists
    /\ \E res \in ResultLists : init_with(res)

\* init, save failing: the process exits with failure; the write is taken as
\* all or nothing, so no file is left
init_save_error ==
    /\ pc = "idle"
    /\ ~disk.exists
    /\ pc' = "init_save_failed"
    /\ exit_code' = "failure"
    /\ Cleared
    /\ UNCHANGED <<disk, initial, wasPending, commits, walk, contents, loaded, stdout>>

\* run_ratchet, phase 1 failing: no ledger file, or a ledger that does not load
run_ratchet_no_ledger ==
    /\ pc = "idle"
    /\ ~disk.exists \/ ~disk.parseable
    /\ pc' = "run_aborted"
    /\ exit_code' = "failure"
    /\ Cleared
    /\ UNCHANGED <<disk, initial, wasPending, commits, walk, contents, loaded, stdout>>

\* Variant of run_ratchet_gather_error: the ledger that was loaded is written
\* back before the process exits
run_ratchet_gather_error_rewrites ==
    /\ pc = "idle"
    /\ disk.exists /\ disk.parseable
    /\ pc' = "run_aborted"
    /\ exit_code' = "failure"
    /\ status' = disk.content
    /\ results' = <<>>
    /\ history_snapshots' = <<>>
    /\ violations' = <<>>
    /\ updated' = empty
    /\ has_baseline' = FALSE
    /\ history_violations' = <<>>
    /\ disk' = File(save(disk.content))
    /\ UNCHANGED <<initial, wasPending, commits, walk, contents, loaded, stdout>>

\* run_ratchet, phase 1 failing after the load: cargo cannot be run, or
\* collect_history_snapshots returns an error
run_ratchet_gather_error ==
    /\ pc = "idle"
    /\ disk.exists /\ disk.parseable
    /\ pc' = "run_aborted"
    /\ exit_code' = "failure"
    /\ status' = disk.content
    /\ results' = <<>>
    /\ history_snapshots' = <<>>
    /\ violations' = <<>>
    /\ updated' = empty
    /\ has_baseline' = FALSE
    /\ history_violations' = <<>>
    /\ UNCHANGED <<disk, initial, wasPending, commits, walk, contents, loaded, stdout>>

\* run_ratchet, phase 3 failing: save returns an error and the process exits
\* before it looks at the violations; the write is taken as all or nothing,
\* so the file is as it was
run_ratchet_save_error ==
    /\ pc = "idle"
    /\ disk.exists /\ disk.parseable
    /\ pc' = "run_save_failed"
    /\ exit_code' = "failure"
    /\ status' = disk.content
    /\ results' = <<>>
    /\ history_snapshots' = <<>>
    /\ violations' = <<>>
    /\ updated' = empty
    /\ has_baseline' = FALSE
    /\ history_violations' = <<>>
    /\ UNCHANGED <<disk, initial, wasPending, commits, walk, contents, loaded, stdout>>

\* Variant of run_ratchet: a missing gatekeeper alone does not fail the run
run_ratchet_gatekeeper_tolerated ==
    /\ pc = "idle"
    /\ disk.exists /\ disk.parseable
    /\ \E res \in ResultLists, snapshots \in HistoryInputs :
        \E r \in {evaluate(disk.content, res, snapshots)} :
        LET st == disk.content
        IN  /\ status' = st
            /\ results' = res
            /\ history_snapshots' = snapshots
            /\ violations' = r.violations
            /\ updated' = r.updated
            /\ disk' = File(save(r.updated))
            /\ exit_code' = IF \A i \in DOMAIN r.violations :
                                    r.violations[i].kind = "MissingGatekeeper"
                               THEN "success" ELSE "failure"
            /\ wasPending' = wasPending \cup (PendingNames(r.updated) \ initial)
            /\ has_baseline' = (st.baseline /= None)
            /\ history_violations' = SelectSeq(r.violations, LAMBDA v : v.kind = "SkippedPending")
    /\ pc' = "run_done"
    /\ UNCHANGED <<initial, commits, walk, contents, loaded, stdout>>

\* Variant of run_ratchet: the ledger is saved only when nothing is violated
run_ratchet_save_on_success ==
    /\ pc = "idle"
    /\ disk.exists /\ disk.parseable
    /\ \E res \in ResultLists, snapshots \in HistoryInputs :
        \E r \in {evaluate(disk.content, res, snapshots)} :
        LET st == disk.content
        IN  /\ status' = st
            /\ results' = res
            /\ history_snapshots' = snapshots
            /\ violations' = r.violations
            /\ updated' = r.updated
            /\ disk' = IF r.violations = <<>> THEN File(save(r.updated)) ELSE disk
            /\ exit_code' = IF r.violations = <<>> THEN "success" ELSE "failure"
            /\ wasPending' = wasPending \cup (PendingNames(r.updated) \ initial)
            /\ has_baseline' = (st.baseline /= None)
            /\ history_violations' = SelectSeq(r.violations, LAMBDA v : v.kind = "SkippedPending")
    /\ pc' = "run_done"
    /\ UNCHANGED <<initial, commits, walk, contents, loaded, stdout>>

\* run_ratchet: load, gather, evaluate, save, exit
run_ratchet ==
    /\ pc = "idle"
    /\ disk.exists /\ disk.parseable
    /\ \E res \in ResultLists, snapshots \in HistoryInputs :
        \E r \in {evaluate(disk.content, res, snapshots)} :
        LET st == disk.content
        IN  /\ status' = st
            /\ results' = res
            /\ history_snapshots' = snapshots
            /\ violations' = r.violations
            /\ updated' = r.updated
            /\ disk' = File(save(r.updated))
            /\ exit_code' = IF r.violations = <<>> THEN "success" ELSE "failure"
            /\ wasPending' = wasPending \cup (PendingNames(r.updated) \ initial)
            /\ has_baseline' = (st.baseline /= None)
            /\ history_violations' = SelectSeq(r.violations, LAMBDA v : v.kind = "SkippedPending")
    /\ pc' = "run_done"
    /\ UNCHANGED <<initial, commits, walk, contents, loaded, stdout>>

\* The commits a per-test baseline of a historical ledger names: the oldest
\* commit, the second commit, and a commit that has no snapshot
HistBaselines == {CommitIds[1], CommitIds[2], UnseenCommit}

\* The entries test "a" can have in a historical ledger
HistEntries ==
    {Simple(s) : s \in TestState}
        \cup {WithBaseline("Passing", c) : c \in HistBaselines}
        \cup {WithBaseline("Pending", CommitIds[1])}

\* The ledgers of the snapshots: "a" with any of these entries or untracked,
\* and at most one other test, Passing: "b" or one of the gatekeeper tests.
HistLedgers ==
    { save(StatusFile(MapOf(pa \cup po), None)) :
        pa \in {{}} \cup {{ << <<"a">>, e >> } : e \in HistEntries},
        po \in {{}, { << <<"b">>, Simple("Passing") >> },
                    { << <<"tdd_ratchet_gatekeeper">>, Simple("Passing") >> },
                    { << <<"m::", "tdd_ratchet_gatekeeper">>, Simple("Passing") >> }} }

\* A snapshot sequence of the history check: oldest first, distinct commits,
\* the ledger f[i] at the i-th commit
SnapshotSeq(n, f) == [i \in 1..n |-> HistorySnapshot(CommitIds[i], f[i])]

\* check_history_snapshots applied to the arguments drawn by HistInit
check_history ==
    /\ pc = "hist_input"
    /\ pc' = "hist_done"
    /\ history_violations' = check_history_snapshots(history_snapshots, has_baseline)
    /\ UNCHANGED <<disk, status, results, history_snapshots, violations, updated,
                   exit_code, initial, wasPending, has_baseline, commits, walk, contents, loaded, stdout>>

HistInit ==
    /\ pc = "hist_input"
    /\ \E n \in 0..MaxSnapshots : \E f \in [1..n -> HistLedgers] :
            history_snapshots = SnapshotSeq(n, f)
    /\ has_baseline \in BOOLEAN
    /\ history_violations = <<>>
    /\ disk = Missing
    /\ initial = {}
    /\ wasPending = {}
    /\ status = empty
    /\ results = <<>>
    /\ violations = <<>>
    /\ updated = empty
    /\ exit_code = None
    /\ commits = <<>>
    /\ walk = NotCalled
    /\ contents = NotJson
    /\ loaded = NotCalled
    /\ stdout = <<>>

HistNext == check_history

HistSpec == HistInit /\ [][HistNext]_vars

\* The ledgers of a growing history: test a untracked, Pending, Passing, or
\* Passing with a per-test baseline, and test b untracked or Passing
GrowthLedgers ==
    { save(StatusFile(MapOf(pa \cup pb), None)) :
        pa \in {{}} \cup {{ << <<"a">>, e >> } :
                            e \in {Simple("Pending"), Simple("Passing"),
                                   WithBaseline("Passing", CommitIds[1]),
                                   WithBaseline("Passing", CommitIds[2])}},
        pb \in {{}, { << <<"b">>, Simple("Passing") >> }} }

\* check_history_snapshots on a history and, in the properties, on the
\* shorter histories it grew from
GrowthInit ==
    /\ pc = "hist_input"
    /\ \E n \in 0..MaxSnapshots : \E f \in [1..n -> GrowthLedgers] :
            history_snapshots = SnapshotSeq(n, f)
    /\ has_baseline \in BOOLEAN
    /\ history_violations = <<>>
    /\ disk = Missing
    /\ initial = {}
    /\ wasPending = {}
    /\ status = empty
    /\ results = <<>>
    /\ violations = <<>>
    /\ updated = empty
    /\ exit_code = None
    /\ commits = <<>>
    /\ walk = NotCalled
    /\ contents = NotJson
    /\ loaded = NotCalled
    /\ stdout = <<>>

GrowthNext == check_history

GrowthSpec == GrowthInit /\ [][GrowthNext]_vars

\* The ledger file of a commit of WalkSpec: none, one that does not parse, or
\* one of two ledgers
WalkFiles ==
    { Missing, Unparseable,
      File(save(StatusFile(MapOf({ << <<"a">>, Simple("Pending") >> }), None))),
      File(save(StatusFile(MapOf({ << <<"a">>, Simple("Passing") >> }), None))) }

\* The baseline given to the walk: none, a commit of the walk, a commit the
\* walk does not visit, or a string that is no object id
WalkBaselines == {None, CommitIds[1], CommitIds[2], CommitIds[3], UnseenCommit, MalformedOid}

\* A repository: n commits, oldest first, the file f[i] in the tree of the i-th
Repo(n, f) == [i \in 1..n |-> Commit(CommitIds[i], f[i])]

\* collect_history_snapshots applied to the arguments drawn by WalkInit
collect ==
    /\ pc = "walk_input"
    /\ pc' = "walk_done"
    /\ walk' = collect_history_snapshots(commits, status.baseline)
    /\ history_snapshots' = walk'.value
    /\ UNCHANGED <<disk, status, results, violations, updated, exit_code, initial,
                   wasPending, has_baseline, history_violations, commits, contents, loaded, stdout>>

WalkInit ==
    /\ pc = "walk_input"
    /\ \E n \in 0..MaxCommits : \E f \in [1..n -> WalkFiles] : commits = Repo(n, f)
    /\ \E b \in WalkBaselines : status = StatusFile(EmptyMap, b)
    /\ walk = NotCalled
    /\ contents = NotJson
    /\ loaded = NotCalled
    /\ stdout = <<>>
    /\ history_snapshots = <<>>
    /\ has_baseline = FALSE
    /\ history_violations = <<>>
    /\ disk = Missing
    /\ initial = {}
    /\ wasPending = {}
    /\ results = <<>>
    /\ violations = <<>>
    /\ updated = empty
    /\ exit_code = None

WalkNext == collect

WalkSpec == WalkInit /\ [][WalkNext]_vars

\* The repositories init is run in: no commit yet, or one or two commits
\* without a ledger file
InitRepos == {Repo(n, [i \in 1..n |-> Missing]) : n \in 0..2}

InitInit ==
    /\ pc = "idle"
    /\ disk \in {Missing, Unparseable} \cup {File(sf) : sf \in SeedLedgers}
    /\ commits \in InitRepos
    /\ initial = DOMAIN disk.content.tests
    /\ wasPending = {}
    /\ status = empty
    /\ results = <<>>
    /\ history_snapshots = <<>>
    /\ violations = <<>>
    /\ updated = empty
    /\ exit_code = None
    /\ has_baseline = FALSE
    /\ history_violations = <<>>
    /\ walk = NotCalled
    /\ contents = NotJson
    /\ loaded = NotCalled
    /\ stdout = <<>>

InitNext ==
    \/ main
    \/ init_refused
    \/ init
    \/ init_save_error

InitSpec == InitInit /\ [][InitNext]_vars

\* The suite of the adopting project: the tests a, b and the gatekeeper test,
\* each not in the suite, passing or failing, one outcome per test
SuiteRun(oa, ob, og) ==
    SelectSeq(<< [name |-> <<"a">>, outcome |-> oa],
                 [name |-> <<"b">>, outcome |-> ob],
                 [name |-> <<"tdd_ratchet_gatekeeper">>, outcome |-> og] >>,
              LAMBDA r : r.outcome /= "Absent")

RepoResults ==
    {SuiteRun(oa, ob, og) : oa \in {"Passed", "Failed"},
                            ob \in {"Absent", "Passed", "Failed"},
                            og \in {"Absent", "Passed"}}

\* init in the repository, on the suite's outcomes
init_in_repo ==
    /\ pc = "idle"
    /\ ~disk.exists
    /\ \E res \in RepoResults : init_with(res)

\* git add -A; git commit --allow-empty: the working tree, with its ledger
\* file, becomes the new head
git_add_commit ==
    /\ pc = "idle"
    /\ Len(commits) < MaxCommits
    /\ commits' = Append(commits, Commit(CommitIds[Len(commits) + 1], disk))
    /\ UNCHANGED <<pc, disk, status, results, history_snapshots, violations, updated,
                   exit_code, initial, wasPending, has_baseline, history_violations, walk, contents, loaded, stdout>>

\* run_ratchet in the repository, collect_history_snapshots returning an error
run_ratchet_walk_error ==
    /\ pc = "idle"
    /\ disk.exists /\ disk.parseable
    /\ ~collect_history_snapshots(commits, disk.content.baseline).ok
    /\ walk' = collect_history_snapshots(commits, disk.content.baseline)
    /\ pc' = "run_aborted"
    /\ exit_code' = "failure"
    /\ status' = disk.content
    /\ results' = <<>>
    /\ history_snapshots' = <<>>
    /\ violations' = <<>>
    /\ updated' = empty
    /\ has_baseline' = FALSE
    /\ history_violations' = <<>>
    /\ UNCHANGED <<disk, initial, wasPending, commits, contents, loaded, stdout>>

\* run_ratchet in the repository: the history is the result of
\* collect_history_snapshots on the commits, from the ledger's baseline
run_ratchet_in_repo ==
    /\ pc = "idle"
    /\ disk.exists /\ disk.parseable
    /\ collect_history_snapshots(commits, disk.content.baseline).ok
    /\ \E res \in RepoResults :
        \E w \in {collect_history_snapshots(commits, disk.content.baseline)} :
        \E r \in {evaluate(disk.content, res, w.value)} :
        LET st == disk.content
        IN  /\ walk' = w
            /\ status' = st
            /\ results' = res
            /\ history_snapshots' = w.value
            /\ violations' = r.violations
            /\ updated' = r.updated
            /\ disk' = File(save(r.updated))
            /\ exit_code' = IF r.violations = <<>> THEN "success" ELSE "failure"
            /\ wasPending' = wasPending \cup (PendingNames(r.updated) \ initial)
            /\ has_baseline' = (st.baseline /= None)
            /\ history_violations' = SelectSeq(r.violations, LAMBDA v : v.kind = "SkippedPending")
    /\ pc' = "run_done"
    /\ UNCHANGED <<initial, commits, contents, loaded, stdout>>

\* A project before adoption: no ledger file, no commit or one commit
RepoInit ==
    /\ pc = "idle"
    /\ disk = Missing
    /\ commits \in {Repo(n, [i \in 1..n |-> Missing]) : n \in 0..1}
    /\ initial = {}
    /\ wasPending = {}
    /\ status = empty
    /\ results = <<>>
    /\ history_snapshots = <<>>
    /\ violations = <<>>
    /\ updated = empty
    /\ exit_code = None
    /\ has_baseline = FALSE
    /\ history_violations = <<>>
    /\ walk = NotCalled
    /\ contents = NotJson
    /\ loaded = NotCalled
    /\ stdout = <<>>

RepoNext ==
    \/ main
    \/ init_in_repo
    \/ init_refused
    \/ git_add_commit
    \/ run_ratchet_no_ledger
    \/ run_ratchet_walk_error
    \/ run_ratchet_in_repo

RepoSpec == RepoInit /\ [][RepoNext]_vars

\* The entries of a test in a prior ledger of EvalSpec: none, Pending or Passing
EvalEntries(n) == {{}} \cup {{<<n, Simple(st)>>} : st \in TestState}

\* The prior ledgers given to evaluate: the seed ledgers, and every ledger
\* over the test b and the gatekeeper test
EvalLedgers ==
    SeedLedgers \cup
    {StatusFile(MapOf(pb \cup pg), None) :
        pb \in EvalEntries(<<"b">>), pg \in EvalEntries(<<"tdd_ratchet_gatekeeper">>)}

\* evaluate applied to the arguments drawn by EvalInit
call_evaluate ==
    /\ pc = "eval_input"
    /\ pc' = "eval_done"
    /\ \E r \in {evaluate(status, results, history_snapshots)} :
           /\ violations' = r.violations
           /\ updated' = r.updated
           /\ history_violations' = SelectSeq(r.violations, LAMBDA v : v.kind = "SkippedPending")
    /\ has_baseline' = (status.baseline /= None)
    /\ UNCHANGED <<disk, status, results, history_snapshots, exit_code, initial,
                   wasPending, commits, walk, contents, loaded, stdout>>

EvalInit ==
    /\ pc = "eval_input"
    /\ status \in EvalLedgers
    /\ results \in ResultLists
    /\ history_snapshots \in HistoryInputs
    /\ violations = <<>>
    /\ updated = empty
    /\ has_baseline = FALSE
    /\ history_violations = <<>>
    /\ disk = Missing
    /\ initial = {}
    /\ wasPending = {}
    /\ exit_code = None
    /\ commits = <<>>
    /\ walk = NotCalled
    /\ contents = NotJson
    /\ loaded = NotCalled
    /\ stdout = <<>>

EvalNext == call_evaluate

EvalSpec == EvalInit /\ [][EvalNext]_vars

-----------------------------------------------------------------------------
(* StatusFile::save and StatusFile::load over ledgers and documents *)

\* The entries a ledger of StatusInit gives test a
StatusEntries ==
    {Simple("Pending"), Simple("Passing"),
     WithBaseline("Passing", CommitIds[1]), WithBaseline("Pending", CommitIds[2])}

\* The ledgers StatusInit hands to save: with and without per-test
\* baselines, a ledger baseline, a schema annotation
StatusLedgers ==
    {[schema |-> s, tests |-> t, baseline |-> b] :
        s \in {None, SCHEMA_URL},
        t \in {EmptyMap}
              \cup {MapOf({<<NameOrder[1], e>>}) : e \in StatusEntries}
              \cup {MapOf({<<NameOrder[1], e>>, <<NameOrder[2], Simple("Pending")>>}) :
                        e \in StatusEntries},
        b \in {None, CommitIds[1]}}

\* The JSON values a document of StatusInit gives test a
DocumentEntries ==
    {JString("pending"), JString("passing"), JString("Passing"),
     JObject({"state", "baseline"}, "passing", CommitIds[1]),
     JObject({"state", "baseline", "note"}, "passing", CommitIds[1]),
     JObject({"state"}, "pending", None)}

\* The key sets of the top-level object of a document of StatusInit
DocumentKeys ==
    {{"tests"}, {"$schema", "tests"}, {"tests", "baseline"},
     {"$schema", "tests", "baseline"}, {"tests", "future_field"},
     {"$schema", "tests", "baseline", "future_field"}, {"$schema"}}

\* The file contents StatusInit hands to load
Documents ==
    {NotJson}
    \cup {JDocument(ks,
                    IF "$schema" \in ks THEN SCHEMA_URL ELSE None,
                    t,
                    IF "baseline" \in ks THEN CommitIds[1] ELSE None) :
            ks \in DocumentKeys,
            t \in {EmptyMap}
                  \cup {MapOf({<<NameOrder[1], j>>}) : j \in DocumentEntries}
                  \cup {MapOf({<<NameOrder[1], j>>, <<NameOrder[2], JString("pending")>>}) :
                            j \in DocumentEntries}}

\* StatusFile::save: the ledger with the schema annotation set, serialized
StatusFile_save ==
    /\ pc = "status_input"
    /\ contents' = to_string_pretty(save(status))
    /\ pc' = "saved"
    /\ UNCHANGED <<disk, status, results, history_snapshots, violations, updated,
                   exit_code, initial, wasPending, has_baseline, history_violations,
                   commits, walk, loaded, stdout>>

\* StatusFile::load: the file contents, deserialized
StatusFile_load ==
    /\ pc \in {"status_input", "saved"}
    /\ loaded' = from_str(contents)
    /\ pc' = IF pc = "saved" THEN "reloaded" ELSE "loaded"
    /\ UNCHANGED <<disk, status, results, history_snapshots, violations, updated,
                   exit_code, initial, wasPending, has_baseline, history_violations,
                   commits, walk, contents, stdout>>

StatusInit ==
    /\ pc = "status_input"
    /\ status \in StatusLedgers
    /\ contents \in Documents
    /\ loaded = NotCalled
    /\ stdout = <<>>
    /\ results = <<>>
    /\ history_snapshots = <<>>
    /\ violations = <<>>
    /\ updated = empty
    /\ has_baseline = FALSE
    /\ history_violations = <<>>
    /\ disk = Missing
    /\ initial = {}
    /\ wasPending = {}
    /\ exit_code = None
    /\ commits = <<>>
    /\ walk = NotCalled

StatusNext == StatusFile_save \/ StatusFile_load

StatusSpec == StatusInit /\ [][StatusNext]_vars

-----------------------------------------------------------------------------
(* parse_nextest_output over runner outputs *)

\* The lines a runner output of ParseInit is made of
Lines ==
    {Text,
     Event({"type", "event"}, "suite", "started", <<>>),
     Event({"type", "event"}, "suite", "failed", <<>>),
     Event({"type", "event", "name"}, "test", "started", <<"crate", "$", "a">>),
     Event({"type", "event", "name", "exec_time"}, "test", "ok", <<"crate", "$", "a">>),
     Event({"type", "event", "name", "exec_time"}, "test", "failed", <<"crate", "$", "b">>),
     Event({"type", "event", "name"}, "test", "ignored", <<"crate", "$", "a">>),
     Event({"type", "event", "name"}, "test", "ok", <<"crate", "$", "a", "$", "b">>),
     Event({"type", "event", "name"}, "test", "failed", <<"a">>),
     Event({"type", "event"}, "test", "ok", <<>>),
     Event({"event", "name"}, None, "ok", <<"crate", "$", "a">>)}

\* The runner outputs of ParseInit: up to MaxLines lines
Outputs == UNION {[1..n -> Lines] : n \in 0..MaxLines}

\* A call of parse_nextest_output
call_parse_nextest_output ==
    /\ pc = "parse_input"
    /\ results' = parse_nextest_output(stdout)
    /\ pc' = "parse_done"
    /\ UNCHANGED <<disk, status, history_snapshots, violations, updated, exit_code,
                   initial, wasPending, has_baseline, history_violations, commits,
                   walk, contents, loaded, stdout>>

ParseInit ==
    /\ pc = "parse_input"
    /\ stdout \in Outputs
    /\ results = <<>>
    /\ status = empty
    /\ history_snapshots = <<>>
    /\ violations = <<>>
    /\ updated = empty
    /\ has_baseline = FALSE
    /\ history_violations = <<>>
    /\ disk = Missing
    /\ initial = {}
    /\ wasPending = {}
    /\ exit_code = None
    /\ commits = <<>>
    /\ walk = NotCalled
    /\ contents = NotJson
    /\ loaded = NotCalled

ParseNext == call_parse_nextest_output

ParseSpec == ParseInit /\ [][ParseNext]_vars

Init ==
    /\ pc = "idle"
    /\ disk \in {Missing, Unparseable} \cup {File(sf) : sf \in SeedLedgers}
    /\ initial = DOMAIN disk.content.tests
    /\ wasPending = {}
    /\ status = empty
    /\ results = <<>>
    /\ history_snapshots = <<>>
    /\ violations = <<>>
    /\ updated = empty
    /\ exit_code = None
    /\ has_baseline = FALSE
    /\ history_violations = <<>>
    /\ commits = <<>>
    /\ walk = NotCalled
    /\ contents = NotJson
    /\ loaded = NotCalled
    /\ stdout = <<>>

Next ==
    \/ main
    \/ run_ratchet_no_ledger
    \/ run_ratchet_gather_error
    \/ run_ratchet_save_error
    \/ run_ratchet

Spec == Init /\ [][Next]_vars

-----------------------------------------------------------------------------
(* Vocabulary of the properties *)

Range(seq) == {seq[i] : i \in DOMAIN seq}

\* The run evaluated the ledger: status, results, history_snapshots are the
\* arguments of evaluate, violations and updated its result.
Evaluated == pc = "run_done"

\* t is a gatekeeper test: a test named tdd_ratchet_gatekeeper, in any module
IsGatekeeper(t) == ends_with(t, GATEKEEPER_TEST_NAME)

Tracked(sf, t) == t \in DOMAIN sf.tests

StateOf(sf, t) == IF Tracked(sf, t) THEN sf.tests[t].state ELSE "Absent"

\* The entry of t is the same in both ledgers (absent in both, or equal)
SameEntry(sf1, sf2, t) ==
    /\ Tracked(sf1, t) <=> Tracked(sf2, t)
    /\ Tracked(sf1, t) => sf1.tests[t] = sf2.tests[t]

\* Some entry of the outcome list names t
Named(t) == \E i \in DOMAIN results : results[i].name = t

\* Some entry of the outcome list names t with outcome o
NamedWith(t, o) == \E i \in DOMAIN results : results[i] = [name |-> t, outcome |-> o]

\* The outcome list names t, and with outcome o only
OnlyOutcome(t, o) ==
    /\ NamedWith(t, o)
    /\ \A i \in DOMAIN results : results[i].name = t => results[i].outcome = o

\* How many times the violation v is in the violation list
Count(v) == Cardinality({i \in DOMAIN violations : violations[i] = v})

\* The violations that name t
ViolationsNaming(t) == {v \in Range(violations) : v.test = t}

\* The violations of the per-test rules and the disappearance check that name t
RuleViolationsNaming(t) ==
    {v \in ViolationsNaming(t) : v.kind \in {"NewTestPassed", "Regression", "TestDisappeared"}}

\* History, stated on the snapshot sequence S: t is in some snapshot
Appears(S, t) == \E i \in DOMAIN S : Tracked(S[i].status, t)

\* The position of the first snapshot that has t
FirstAppearance(S, t) ==
    CHOOSE i \in DOMAIN S :
        /\ Tracked(S[i].status, t)
        /\ \A j \in DOMAIN S : j < i => ~Tracked(S[j].status, t)

\* Exemption 1: first seen in the oldest snapshot, with a global baseline configured
GloballyGrandfathered(S, hb, t) == hb /\ S[FirstAppearance(S, t)].commit = S[1].commit

\* Exemption 2: the latest snapshot gives t a baseline that names a commit at or
\* before the first appearance, or a commit that is in no snapshot
PerTestGrandfathered(S, t) ==
    LET latest == S[Len(S)].status
    IN  /\ Tracked(latest, t)
        /\ latest.tests[t].baseline /= None
        /\ \/ \A i \in DOMAIN S : S[i].commit /= latest.tests[t].baseline
           \/ \E i \in DOMAIN S : /\ S[i].commit = latest.tests[t].baseline
                                  /\ i <= FirstAppearance(S, t)

\* t first appears as Passing and no exemption applies
SkippedPendingDue(S, hb, t) ==
    /\ Appears(S, t)
    /\ S[FirstAppearance(S, t)].status.tests[t].state = "Passing"
    /\ ~GloballyGrandfathered(S, hb, t)
    /\ ~PerTestGrandfathered(S, t)
    /\ ~IsGatekeeper(t)

-----------------------------------------------------------------------------
(* Properties of the evaluator, checked under Spec *)

\* C1. Fail first across runs. In a chain of runs through the ledger, a test
\* that is not a gatekeeper test and is absent from the initial ledger is
\* Passing in the ledger only if it was Pending in the ledger produced by an
\* earlier evaluation; and no single evaluation takes such a test from absent
\* to Passing, whatever the outcome list.
C1_FailFirst ==
    /\ \A t \in Names :
          (~IsGatekeeper(t) /\ t \notin initial /\ StateOf(disk.content, t) = "Passing")
              => t \in wasPending
    /\ Evaluated =>
          \A t \in Names :
              (~IsGatekeeper(t) /\ ~Tracked(status, t)) => StateOf(updated, t) /= "Passing"

C1_Witness ==
    /\ Evaluated
    /\ \E t \in Names :
          /\ ~IsGatekeeper(t) /\ t \notin initial
          /\ StateOf(status, t) = "Pending"
          /\ NamedWith(t, "Passed")
          /\ StateOf(updated, t) = "Passing"
          /\ StateOf(disk.content, t) = "Passing"
          /\ t \in wasPending

\* C2. Passing is absorbing. A test that is Passing in the ledger is Passing in
\* the ledger after every step of the chain of runs, for every outcome list: the
\* ledger never records a move from Passing to Pending or to absent.
C2_PassingAbsorbing ==
    [][\A t \in Names :
          StateOf(disk.content, t) = "Passing" => StateOf(disk'.content, t) = "Passing"]_vars

C2_Witness ==
    /\ Evaluated
    /\ \E t \in Names :
          /\ StateOf(status, t) = "Passing"
          /\ \E i, j \in DOMAIN results :
                /\ i /= j
                /\ results[i] = [name |-> t, outcome |-> "Failed"]
                /\ results[j].name = t
          /\ StateOf(updated, t) = "Passing"
          /\ StateOf(disk.content, t) = "Passing"

\* C3, as stated. For every test absent from the prior ledger: an outcome Failed
\* adds it as Pending with no violation naming it; an outcome Passed for a test
\* that is not a gatekeeper yields NewTestPassed naming it and the test stays
\* absent from the updated ledger.
C3_AsStated ==
    Evaluated =>
        \A t \in Names :
            ~Tracked(status, t) =>
                /\ NamedWith(t, "Failed") =>
                      /\ Tracked(updated, t)
                      /\ updated.tests[t] = Simple("Pending")
                      /\ ViolationsNaming(t) = {}
                /\ (NamedWith(t, "Passed") /\ ~IsGatekeeper(t)) =>
                      /\ NewTestPassed(t) \in Range(violations)
                      /\ ~Tracked(updated, t)

\* C3, amended. For every test absent from the prior ledger that the outcome
\* list names with one outcome only: Failed adds it as Pending, and no
\* NewTestPassed, Regression or TestDisappeared names it; Passed, for a test that
\* is not a gatekeeper, yields NewTestPassed naming it and the test stays absent.
C3_NewTest ==
    Evaluated =>
        \A t \in Names :
            ~Tracked(status, t) =>
                /\ OnlyOutcome(t, "Failed") =>
                      /\ Tracked(updated, t)
                      /\ updated.tests[t] = Simple("Pending")
                      /\ RuleViolationsNaming(t) = {}
                /\ (OnlyOutcome(t, "Passed") /\ ~IsGatekeeper(t)) =>
                      /\ NewTestPassed(t) \in Range(violations)
                      /\ ~Tracked(updated, t)

C3_Witness ==
    /\ Evaluated
    /\ \E t, u \in Names :
          /\ t /= u
          /\ ~Tracked(status, t) /\ ~Tracked(status, u)
          /\ OnlyOutcome(t, "Failed")
          /\ Tracked(updated, t) /\ updated.tests[t] = Simple("Pending")
          /\ ~IsGatekeeper(u) /\ OnlyOutcome(u, "Passed")
          /\ NewTestPassed(u) \in Range(violations)
          /\ ~Tracked(updated, u)

\* C4, as stated. For every test Pending in the prior ledger: an outcome Passed
\* makes it Passing, an outcome Failed leaves it Pending, and in neither case is
\* a violation naming it produced.
C4_AsStated ==
    Evaluated =>
        \A t \in Names :
            StateOf(status, t) = "Pending" =>
                /\ NamedWith(t, "Passed") => StateOf(updated, t) = "Passing"
                /\ NamedWith(t, "Failed") => StateOf(updated, t) = "Pending"
                /\ (NamedWith(t, "Passed") \/ NamedWith(t, "Failed")) => ViolationsNaming(t) = {}

\* C4, amended. For every test Pending in the prior ledger: an outcome Passed
\* makes it Passing; an outcome Failed leaves its entry as it is when no entry
\* names it Passed; in both cases no NewTestPassed, Regression or
\* TestDisappeared names it.
C4_PendingTest ==
    Evaluated =>
        \A t \in Names :
            StateOf(status, t) = "Pending" =>
                /\ NamedWith(t, "Passed") => StateOf(updated, t) = "Passing"
                /\ (NamedWith(t, "Failed") /\ ~NamedWith(t, "Passed")) =>
                      SameEntry(status, updated, t)
                /\ (NamedWith(t, "Passed") \/ NamedWith(t, "Failed")) =>
                      RuleViolationsNaming(t) = {}

C4_Witness ==
    /\ Evaluated
    /\ \E t, u \in Names :
          /\ t /= u
          /\ StateOf(status, t) = "Pending" /\ StateOf(status, u) = "Pending"
          /\ OnlyOutcome(t, "Passed") /\ StateOf(updated, t) = "Passing"
          /\ OnlyOutcome(u, "Failed") /\ StateOf(updated, u) = "Pending"
          /\ ViolationsNaming(t) = {} /\ ViolationsNaming(u) = {}

\* C5, as stated. For every test Passing in the prior ledger: an outcome Failed
\* yields Regression naming it; an outcome Passed yields no violation and leaves
\* the entry unchanged.
C5_AsStated ==
    Evaluated =>
        \A t \in Names :
            StateOf(status, t) = "Passing" =>
                /\ NamedWith(t, "Failed") => Regression(t) \in Range(violations)
                /\ NamedWith(t, "Passed") =>
                      /\ ViolationsNaming(t) = {}
                      /\ SameEntry(status, updated, t)

\* C5, amended. For every test Passing in the prior ledger: an outcome Failed
\* yields Regression naming it; an outcome Passed leaves the entry unchanged
\* and, when no entry names the test Failed, comes with no NewTestPassed,
\* Regression or TestDisappeared naming it.
C5_PassingTest ==
    Evaluated =>
        \A t \in Names :
            StateOf(status, t) = "Passing" =>
                /\ NamedWith(t, "Failed") => Regression(t) \in Range(violations)
                /\ NamedWith(t, "Passed") => SameEntry(status, updated, t)
                /\ (NamedWith(t, "Passed") /\ ~NamedWith(t, "Failed")) =>
                      RuleViolationsNaming(t) = {}

C5_Witness ==
    /\ Evaluated
    /\ \E t, u \in Names :
          /\ t /= u
          /\ StateOf(status, t) = "Passing" /\ StateOf(status, u) = "Passing"
          /\ OnlyOutcome(t, "Failed") /\ Count(Regression(t)) = 1
          /\ OnlyOutcome(u, "Passed") /\ ViolationsNaming(u) = {}
          /\ SameEntry(status, updated, t) /\ SameEntry(status, updated, u)

\* C6. TestDisappeared is emitted exactly once for each test that is in the
\* prior ledger and is not named in the outcome list, and for no other test;
\* with the prior ledger {x: Passing} and an empty outcome list there is exactly
\* one TestDisappeared, naming x.
C6_Disappeared ==
    Evaluated =>
        /\ \A t \in Names :
              Count(TestDisappeared(t)) = IF Tracked(status, t) /\ ~Named(t) THEN 1 ELSE 0
        /\ \A x \in Names :
              (DOMAIN status.tests = {x} /\ StateOf(status, x) = "Passing" /\ results = <<>>)
                  => /\ Cardinality({i \in DOMAIN violations :
                                        violations[i].kind = "TestDisappeared"}) = 1
                     /\ TestDisappeared(x) \in Range(violations)

C6_Witness ==
    /\ Evaluated
    /\ \E t, u, w \in Names :
          /\ t /= u
          /\ StateOf(status, t) = "Passing" /\ StateOf(status, u) = "Pending"
          /\ ~Tracked(status, w)
          /\ ~Named(t) /\ ~Named(u) /\ Named(w)
          /\ Count(TestDisappeared(t)) = 1
          /\ Count(TestDisappeared(u)) = 1
          /\ Count(TestDisappeared(w)) = 0

\* C7, as stated. An outcome Ignored changes nothing for the test: its entry in
\* the updated ledger is as in the prior ledger (absent stays absent) and no
\* violation names it, in particular no TestDisappeared and no Regression.
C7_AsStated ==
    Evaluated =>
        \A t \in Names :
            NamedWith(t, "Ignored") =>
                /\ SameEntry(status, updated, t)
                /\ ViolationsNaming(t) = {}

\* C7, amended. A test that the outcome list names as Ignored only keeps its
\* entry (absent stays absent) and is named by no NewTestPassed, Regression or
\* TestDisappeared; a test named as Ignored is never reported as TestDisappeared.
C7_Ignored ==
    Evaluated =>
        \A t \in Names :
            /\ OnlyOutcome(t, "Ignored") =>
                  /\ SameEntry(status, updated, t)
                  /\ RuleViolationsNaming(t) = {}
            /\ NamedWith(t, "Ignored") => TestDisappeared(t) \notin Range(violations)

C7_Witness ==
    /\ Evaluated
    /\ \E t, u \in Names :
          /\ StateOf(status, t) = "Passing" /\ ~Tracked(status, u)
          /\ OnlyOutcome(t, "Ignored") /\ OnlyOutcome(u, "Ignored")
          /\ SameEntry(status, updated, t) /\ ~Tracked(updated, u)
          /\ ViolationsNaming(t) = {} /\ ViolationsNaming(u) = {}

\* C8. MissingGatekeeper is emitted, once, if and only if no entry of the
\* outcome list names a gatekeeper test, whatever the outcome of such an entry;
\* when it is emitted, the per-test transitions, the disappearance check and the
\* history check are carried out all the same.
C8_MissingGatekeeper ==
    Evaluated =>
        /\ Count(MissingGatekeeper) =
              IF \E i \in DOMAIN results : IsGatekeeper(results[i].name) THEN 0 ELSE 1
        /\ MissingGatekeeper \in Range(violations) =>
              \A t \in Names :
                  /\ (~Tracked(status, t) /\ NamedWith(t, "Failed")) =>
                        StateOf(updated, t) = "Pending"
                  /\ (~Tracked(status, t) /\ NamedWith(t, "Passed")) =>
                        NewTestPassed(t) \in Range(violations)
                  /\ (StateOf(status, t) = "Pending" /\ NamedWith(t, "Passed")) =>
                        StateOf(updated, t) = "Passing"
                  /\ (StateOf(status, t) = "Passing" /\ NamedWith(t, "Failed")) =>
                        Regression(t) \in Range(violations)
                  /\ (Tracked(status, t) /\ ~Named(t)) =>
                        TestDisappeared(t) \in Range(violations)
                  /\ SkippedPendingDue(history_snapshots, has_baseline, t) =>
                        SkippedPending(t, history_snapshots[FirstAppearance(history_snapshots, t)].commit)
                            \in Range(violations)

C8_Witness ==
    /\ Evaluated
    /\ Count(MissingGatekeeper) = 1
    /\ \E t, u, w \in Names :
          /\ StateOf(status, t) = "Pending" /\ NamedWith(t, "Passed")
          /\ StateOf(updated, t) = "Passing"
          /\ Tracked(status, u) /\ TestDisappeared(u) \in Range(violations)
          /\ SkippedPendingDue(history_snapshots, has_baseline, w)
          /\ \E v \in Range(violations) : v.kind = "SkippedPending" /\ v.test = w

\* C9, as stated. A gatekeeper test absent from the prior ledger with an outcome
\* Passed is added as Passing and no violation is produced for it; with an
\* empty prior ledger, outcomes that are the passing gatekeeper only and no
\* history findings, the violation list is empty.
C9_AsStated ==
    Evaluated =>
        /\ \A t \in Names :
              (IsGatekeeper(t) /\ ~Tracked(status, t) /\ NamedWith(t, "Passed")) =>
                  /\ Tracked(updated, t)
                  /\ updated.tests[t] = Simple("Passing")
                  /\ ViolationsNaming(t) = {}
                  /\ MissingGatekeeper \notin Range(violations)
        /\ ( /\ DOMAIN status.tests = {}
             /\ results /= <<>>
             /\ \A i \in DOMAIN results :
                   IsGatekeeper(results[i].name) /\ results[i].outcome = "Passed"
             /\ history_violations = <<>> )
              => violations = <<>>

\* C9, amended. A gatekeeper test absent from the prior ledger that the outcome
\* list names as Passed and does not name as Failed is added as Passing and no
\* violation is produced for it; with an empty prior ledger, outcomes that are
\* the passing gatekeeper only and no history findings, the violation list is
\* empty.
C9_GatekeeperPasses ==
    Evaluated =>
        /\ \A t \in Names :
              ( /\ IsGatekeeper(t) /\ ~Tracked(status, t)
                /\ NamedWith(t, "Passed") /\ ~NamedWith(t, "Failed") ) =>
                  /\ Tracked(updated, t)
                  /\ updated.tests[t] = Simple("Passing")
                  /\ ViolationsNaming(t) = {}
                  /\ MissingGatekeeper \notin Range(violations)
        /\ ( /\ DOMAIN status.tests = {}
             /\ results /= <<>>
             /\ \A i \in DOMAIN results :
                   IsGatekeeper(results[i].name) /\ results[i].outcome = "Passed"
             /\ history_violations = <<>> )
              => violations = <<>>

C9_Witness ==
    /\ Evaluated
    /\ DOMAIN status.tests = {}
    /\ results = << [name |-> GATEKEEPER_TEST_NAME, outcome |-> "Passed"] >>
    /\ history_violations = <<>>
    /\ violations = <<>>
    /\ Tracked(updated, GATEKEEPER_TEST_NAME)
    /\ updated.tests[GATEKEEPER_TEST_NAME] = Simple("Passing")

-----------------------------------------------------------------------------
(* Properties of the history rule checker, checked under HistSpec *)

HistoryChecked == pc = "hist_done"

\* C10. check_history_snapshots reports SkippedPending{test, commit} for every
\* test whose first appearance in the snapshot sequence is Passing and that has
\* no exemption (global grandfathering, per-test baseline, gatekeeper); it
\* reports at most one SkippedPending per test name, and the commit it carries
\* is the commit of the first appearance of the test.
C10_SkippedPending ==
    HistoryChecked =>
        \A t \in Names :
            /\ SkippedPendingDue(history_snapshots, has_baseline, t) =>
                  SkippedPending(t, history_snapshots[FirstAppearance(history_snapshots, t)].commit)
                      \in Range(history_violations)
            /\ Cardinality({i \in DOMAIN history_violations :
                               history_violations[i].test = t}) <= 1
            /\ \A i \in DOMAIN history_violations :
                  history_violations[i].test = t =>
                      /\ history_violations[i].kind = "SkippedPending"
                      /\ Appears(history_snapshots, t)
                      /\ history_violations[i].commit =
                            history_snapshots[FirstAppearance(history_snapshots, t)].commit

C10_Witness ==
    /\ HistoryChecked
    /\ Len(history_snapshots) = MaxSnapshots
    /\ \E t, u \in Names :
          /\ t /= u
          /\ SkippedPendingDue(history_snapshots, has_baseline, t)
          /\ SkippedPendingDue(history_snapshots, has_baseline, u)
          /\ FirstAppearance(history_snapshots, t) = 1
          /\ FirstAppearance(history_snapshots, u) = Len(history_snapshots)
          /\ Tracked(history_snapshots[Len(history_snapshots)].status, t)
          /\ history_violations =
                << SkippedPending(t, history_snapshots[1].commit),
                   SkippedPending(u, history_snapshots[Len(history_snapshots)].commit) >>

\* The SkippedPending findings of the history check that name t
HistoryViolationsNaming(t) == {v \in Range(history_violations) : v.test = t}

\* The state of t in the i-th snapshot, "Absent" when the snapshot does not track it
StateAt(S, i, t) == StateOf(S[i].status, t)

\* C11. Only the first appearance is judged. A test whose first appearance in
\* the snapshot sequence is Pending gets no SkippedPending from
\* check_history_snapshots, whatever the later snapshots hold: Pending again,
\* Passing, or the test untracked and then tracked again as Passing; with or
\* without a global baseline.
C11_FirstAppearancePending ==
    HistoryChecked =>
        \A t \in Names :
            (/\ Appears(history_snapshots, t)
             /\ StateAt(history_snapshots, FirstAppearance(history_snapshots, t), t) = "Pending")
                => HistoryViolationsNaming(t) = {}

\* "a" is Pending, then untracked, then Passing with no baseline of any kind,
\* while another test of the last snapshot is reported
C11_Witness ==
    /\ HistoryChecked
    /\ ~has_baseline
    /\ Len(history_snapshots) = 3
    /\ \E t \in Names :
          /\ ~IsGatekeeper(t)
          /\ history_snapshots[1].status.tests = MapOf({ <<t, Simple("Pending")>> })
          /\ StateAt(history_snapshots, 2, t) = "Absent"
          /\ Tracked(history_snapshots[3].status, t)
          /\ history_snapshots[3].status.tests[t] = Simple("Passing")
          /\ HistoryViolationsNaming(t) = {}
          /\ history_violations /= <<>>

\* The latest snapshot records a per-test baseline for t
LatestBaseline(S, t) ==
    IF Tracked(S[Len(S)].status, t) THEN S[Len(S)].status.tests[t].baseline ELSE None

\* t first appears in S as Passing
FirstAppearsPassing(S, t) ==
    /\ Appears(S, t)
    /\ StateAt(S, FirstAppearance(S, t), t) = "Passing"

\* C12. Global grandfathering. A test that is not a gatekeeper test, has no
\* per-test baseline and first appears as Passing gets no SkippedPending if
\* and only if a global baseline is configured and the first appearance is in
\* the oldest snapshot: it is reported when no baseline is configured, and
\* when it first appears in a later snapshot, baseline or not.
C12_GlobalGrandfathering ==
    HistoryChecked =>
        \A t \in Names :
            (/\ ~IsGatekeeper(t)
             /\ FirstAppearsPassing(history_snapshots, t)
             /\ LatestBaseline(history_snapshots, t) = None)
                => (HistoryViolationsNaming(t) = {}
                        <=> (has_baseline /\ FirstAppearance(history_snapshots, t) = 1))

\* With a baseline configured, t is Passing in the oldest snapshot and is not
\* reported, u is Passing first in a later snapshot and is reported
C12_Witness ==
    /\ HistoryChecked
    /\ has_baseline
    /\ \E t, u \in Names :
          /\ ~IsGatekeeper(t) /\ ~IsGatekeeper(u)
          /\ FirstAppearsPassing(history_snapshots, t)
          /\ FirstAppearsPassing(history_snapshots, u)
          /\ LatestBaseline(history_snapshots, t) = None
          /\ LatestBaseline(history_snapshots, u) = None
          /\ FirstAppearance(history_snapshots, t) = 1
          /\ FirstAppearance(history_snapshots, u) > 1
          /\ history_violations =
                << SkippedPending(u, history_snapshots[FirstAppearance(history_snapshots, u)].commit) >>

\* The position in S of the snapshot of commit c, 0 when c has no snapshot
PositionOf(S, c) ==
    IF \E i \in DOMAIN S : S[i].commit = c
      THEN CHOOSE i \in DOMAIN S : S[i].commit = c
      ELSE 0

\* S with every baseline of t removed from the ledgers
WithoutBaseline(S, t) ==
    [i \in DOMAIN S |->
        IF Tracked(S[i].status, t)
          THEN [S[i] EXCEPT !.status.tests[t].baseline = None]
          ELSE S[i]]

C14_AbsentBaselineCommit ==
    HistoryChecked =>
        \A t \in Names :
            (/\ FirstAppearsPassing(history_snapshots, t)
             /\ LatestBaseline(history_snapshots, t) /= None
             /\ PositionOf(history_snapshots, LatestBaseline(history_snapshots, t)) = 0)
                => HistoryViolationsNaming(t) = {}

\* No global baseline; "a" is Passing from the oldest of three snapshots on and
\* its latest entry names a commit outside the sequence; another test is reported
C14_Witness ==
    /\ HistoryChecked
    /\ ~has_baseline
    /\ Len(history_snapshots) = 3
    /\ \E t \in Names :
          /\ ~IsGatekeeper(t)
          /\ FirstAppearsPassing(history_snapshots, t)
          /\ FirstAppearance(history_snapshots, t) = 1
          /\ LatestBaseline(history_snapshots, t) = UnseenCommit
          /\ HistoryViolationsNaming(t) = {}
          /\ history_violations /= <<>>

\* C16. When the latest snapshot gives a test a per-test baseline naming
\* commit X, history checking for the test starts at X: its appearances in
\* snapshots older than X are not judged and its first appearance at or after
\* X is grandfathered, so check_history_snapshots reports no SkippedPending
\* for the test.
C16_CheckStartsAtBaseline ==
    HistoryChecked =>
        \A t \in Names :
            (Len(history_snapshots) > 0 /\ LatestBaseline(history_snapshots, t) /= None)
                => HistoryViolationsNaming(t) = {}

\* C17. The gatekeeper test is exempt in the history check for good:
\* check_history_snapshots never reports SkippedPending for it, also when it
\* first appears as Passing in a snapshot that is not the oldest, with no
\* global baseline and no per-test baseline.
C17_GatekeeperExempt ==
    HistoryChecked =>
        \A t \in Names : IsGatekeeper(t) => HistoryViolationsNaming(t) = {}

\* No global baseline; the oldest snapshot has a Passing test, which is
\* reported; the gatekeeper first appears in a later snapshot, Passing, with
\* no per-test baseline, and is not reported
C17_Witness ==
    /\ HistoryChecked
    /\ ~has_baseline
    /\ Len(history_snapshots) >= 2
    /\ FirstAppearsPassing(history_snapshots, GATEKEEPER_TEST_NAME)
    /\ FirstAppearance(history_snapshots, GATEKEEPER_TEST_NAME) > 1
    /\ LatestBaseline(history_snapshots, GATEKEEPER_TEST_NAME) = None
    /\ HistoryViolationsNaming(GATEKEEPER_TEST_NAME) = {}
    /\ \E t \in Names :
          history_violations = << SkippedPending(t, history_snapshots[1].commit) >>

-----------------------------------------------------------------------------
(* Properties of check_history_snapshots on growing histories, checked under
   GrowthSpec *)

\* The findings of check_history_snapshots on the k oldest snapshots
FindingsOfPrefix(k) ==
    Range(check_history_snapshots(SubSeq(history_snapshots, 1, k), has_baseline))

\* C39. A history finding is permanent under history growth: a SkippedPending
\* for test t at commit c reported on a snapshot sequence is reported on
\* every sequence that appends newer snapshots to it and whose newest
\* snapshot records no per-test baseline for t, also when t is removed from
\* the ledger or reset to Pending in the appended snapshots.
C39_FindingPermanent ==
    HistoryChecked =>
        \A k \in 0..(Len(history_snapshots) - 1) :
            \A v \in FindingsOfPrefix(k) :
                LatestBaseline(history_snapshots, v.test) = None
                    => v \in Range(history_violations)

\* C39 witness: a finding on the oldest snapshot alone is reported on the
\* whole sequence, in which the test is later reset to Pending and then
\* removed.
C39_Witness ==
    /\ HistoryChecked
    /\ Len(history_snapshots) = 3
    /\ \E v \in FindingsOfPrefix(1) :
          /\ StateAt(history_snapshots, 2, v.test) = "Pending"
          /\ ~Tracked(history_snapshots[3].status, v.test)
          /\ v \in Range(history_violations)

-----------------------------------------------------------------------------
(* Properties of evaluate and of the driver, checked under Spec *)

\* The SkippedPending violations of the evaluation that name t
SkippedPendingNaming(t) == {v \in ViolationsNaming(t) : v.kind = "SkippedPending"}

\* C15. In evaluate, a per-test baseline that the ledger argument carries for
\* a test, naming a commit at or before the first appearance of the test in
\* the history snapshots, exempts the test from SkippedPending.
C15_LedgerBaselineConsulted ==
    Evaluated =>
        \A t \in Names :
            LET S == history_snapshots
                X == IF Tracked(status, t) THEN status.tests[t].baseline ELSE None
            IN  (/\ X /= None
                 /\ FirstAppearsPassing(S, t)
                 /\ PositionOf(S, X) \in 1..FirstAppearance(S, t))
                    => SkippedPendingNaming(t) = {}

\* The entry of t in the ledger sf; an untracked test has the entry Untracked
Untracked == [state |-> "Absent", baseline |-> None]

EntryOf(sf, t) == IF Tracked(sf, t) THEN sf.tests[t] ELSE Untracked

\* What one outcome o of t makes of t's entry, given its prior entry: a new
\* test that fails is Pending, a Pending test that passes is Passing, a new
\* gatekeeper test that passes is Passing; anything else leaves the entry
OwnStep(t, prior, cur, o) ==
    CASE prior.state = "Absent" /\ o = "Failed" -> Simple("Pending")
      [] prior.state = "Absent" /\ o = "Passed" /\ IsGatekeeper(t) -> Simple("Passing")
      [] prior.state = "Pending" /\ o = "Passed" -> Simple("Passing")
      [] OTHER -> cur

\* The entry of t after the outcomes of t in the outcome list, from position k
\* on, in order; the entries of the list that name other tests are passed over
RECURSIVE OwnEntry(_, _, _, _)
OwnEntry(t, prior, cur, k) ==
    IF k > Len(results) THEN cur
    ELSE OwnEntry(t, prior,
                  IF results[k].name = t THEN OwnStep(t, prior, cur, results[k].outcome)
                                         ELSE cur,
                  k + 1)

\* C18. Progress is not lost to unrelated failures. The entry of a test in
\* the updated ledger is a function of the test's own prior entry and its own
\* outcomes alone: whatever the other tests do and whatever violations the
\* evaluation returns (NewTestPassed, Regression, TestDisappeared,
\* MissingGatekeeper, SkippedPending), for every history snapshot sequence.
C18_OwnEntryOnly ==
    Evaluated =>
        \A t \in Names :
            EntryOf(updated, t) = OwnEntry(t, EntryOf(status, t), EntryOf(status, t), 1)

\* t is promoted in an evaluation that also returns a Regression of another
\* test, MissingGatekeeper and a SkippedPending
C18_Witness ==
    /\ Evaluated
    /\ \E t, u \in Names :
          /\ t /= u
          /\ StateOf(status, t) = "Pending"
          /\ OnlyOutcome(t, "Passed")
          /\ StateOf(updated, t) = "Passing"
          /\ Regression(u) \in Range(violations)
          /\ MissingGatekeeper \in Range(violations)
          /\ \E v \in Range(violations) : v.kind = "SkippedPending"

\* How many entries of the outcome list name t with outcome o
Entries(t, o) ==
    Cardinality({i \in DOMAIN results : results[i] = [name |-> t, outcome |-> o]})

\* The SkippedPending that the history rule owes t, for the ledger's baseline
SkippedPendingOwed(t) ==
    SkippedPendingDue(history_snapshots, status.baseline /= None, t)

C20_SavedBeforeExit ==
    Evaluated =>
        /\ disk = File(save(updated))
        /\ exit_code = "failure" =>
              \A t \in Names :
                  /\ (~Tracked(status, t) /\ StateOf(updated, t) = "Pending")
                        => StateOf(disk.content, t) = "Pending"
                  /\ (StateOf(status, t) = "Pending" /\ StateOf(updated, t) = "Passing")
                        => StateOf(disk.content, t) = "Passing"

\* A run that exits with failure, with violations, leaves on disk a new
\* Pending entry and a promotion
C20_Witness ==
    /\ Evaluated
    /\ exit_code = "failure"
    /\ violations /= <<>>
    /\ \E t, u \in Names :
          /\ ~Tracked(status, t) /\ OnlyOutcome(t, "Failed")
          /\ StateOf(disk.content, t) = "Pending"
          /\ StateOf(status, u) = "Pending" /\ OnlyOutcome(u, "Passed")
          /\ StateOf(disk.content, u) = "Passing"

\* The run ended before evaluate was called
Aborted == pc = "run_aborted"

\* C21. A run that meets an environment or IO failure (no ledger file, a
\* ledger that does not load, cargo or the history walk failing) ends with a
\* failure exit before evaluate is called and leaves the ledger file exactly
\* as it was, not created and not rewritten; and a run never evaluates when
\* the ledger file is missing or does not load.
C21_AbortLeavesLedger ==
    [][/\ Aborted' =>
            /\ disk' = disk
            /\ exit_code' = "failure"
            /\ violations' = <<>> /\ updated' = empty
       /\ (pc = "idle" /\ (~disk.exists \/ ~disk.parseable)) => ~Evaluated']_vars

\* A run aborted after loading a ledger that was written without the schema
\* key: the file still has no schema key, so it was not saved again
C21_Witness ==
    /\ Aborted
    /\ exit_code = "failure"
    /\ disk.exists /\ disk.parseable
    /\ status = disk.content
    /\ disk.content.tests /= EmptyMap
    /\ disk.content.schema = None

\* C36. evaluate never removes an entry: every test of the prior ledger is
\* in the updated ledger, the tests reported as TestDisappeared included, so
\* along runs chained through the ledger file a test that is still not named
\* is reported as TestDisappeared again, and no test the ledger ever held
\* leaves it.
C36_NeverRemoved ==
    /\ Evaluated =>
          \A t \in DOMAIN status.tests :
              /\ t \in DOMAIN updated.tests
              /\ t \in DOMAIN disk.content.tests
              /\ ~Named(t) => TestDisappeared(t) \in Range(violations)
    /\ (disk.exists /\ disk.parseable) => initial \subseteq DOMAIN disk.content.tests

\* C36 witness: a test that an earlier run of the chain added to the ledger
\* is not named by this run, is reported as TestDisappeared and is still in
\* the ledger the run wrote.
C36_Witness ==
    /\ Evaluated
    /\ \E t \in DOMAIN status.tests \ initial :
          /\ ~Named(t)
          /\ TestDisappeared(t) \in Range(violations)
          /\ t \in DOMAIN disk.content.tests

\* C24. The ledger-wide baseline is not changed by the tool: the updated
\* ledger that evaluate returns has the baseline of the prior ledger, for every
\* input, and the ledger a run writes has the baseline of the ledger it loaded.
C24_BaselineKept ==
    Evaluated =>
        /\ updated.baseline = status.baseline
        /\ disk.content.baseline = status.baseline

\* A run that loaded a ledger with a baseline changes the tests and writes
\* the same baseline back
C24_Witness ==
    /\ Evaluated
    /\ status.baseline = "c1"
    /\ updated.tests /= status.tests
    /\ disk.content.baseline = "c1"

\* C28. A run that completes evaluation exits with success if and only if
\* the violation list is empty: a violation of any kind makes it exit with
\* failure.
C28_ExitStatus ==
    Evaluated =>
        /\ exit_code \in {"success", "failure"}
        /\ exit_code = "success" <=> violations = <<>>
        /\ \A k \in {"NewTestPassed", "Regression", "TestDisappeared",
                      "SkippedPending", "MissingGatekeeper"} :
              (\E v \in Range(violations) : v.kind = k) => exit_code = "failure"

\* A run whose only violation is MissingGatekeeper exits with failure
C28_Witness ==
    /\ Evaluated
    /\ violations = <<MissingGatekeeper>>
    /\ updated /= status
    /\ exit_code = "failure"

-----------------------------------------------------------------------------
(* Properties of evaluate, checked under EvalSpec *)

\* evaluate has returned: status, results and history_snapshots are its
\* arguments, violations and updated its result
Returned == pc = "eval_done"

\* Every entry of the outcome list is Failed
AllFailed == \A i \in DOMAIN results : results[i].outcome = "Failed"

\* The names of the outcome list
NamedTests == {results[i].name : i \in DOMAIN results}

\* C29 as stated. evaluate with an empty prior ledger and an outcome list in
\* which every named test Failed returns zero violations and an updated
\* ledger in which each named test is Pending.
C29_AsStated ==
    (Returned /\ status.tests = EmptyMap /\ AllFailed) =>
        /\ violations = <<>>
        /\ \A t \in NamedTests : StateOf(updated, t) = "Pending"

\* C29, amended. evaluate with an empty prior ledger and an outcome list in
\* which every named test Failed returns an updated ledger in which exactly
\* the named tests are tracked, each Pending, and no violation other than
\* MissingGatekeeper, reported exactly when no outcome names a gatekeeper
\* test, followed by the SkippedPending violations of the history check.
C29_AllFailed ==
    (Returned /\ status.tests = EmptyMap /\ AllFailed) =>
        /\ violations =
              (IF \E t \in NamedTests : IsGatekeeper(t)
                 THEN <<>> ELSE <<MissingGatekeeper>>) \o history_violations
        /\ \A v \in Range(history_violations) : v.kind = "SkippedPending"
        /\ DOMAIN updated.tests = NamedTests
        /\ \A t \in NamedTests : StateOf(updated, t) = "Pending"

\* The scenario [(a, Failed), (b, Failed)] on the empty ledger with no
\* history: both become Pending and the one violation is MissingGatekeeper
C29_Witness ==
    /\ Returned
    /\ status.tests = EmptyMap
    /\ history_snapshots = <<>>
    /\ results = <<[name |-> NameOrder[1], outcome |-> "Failed"],
                   [name |-> NameOrder[2], outcome |-> "Failed"]>>
    /\ StateOf(updated, NameOrder[1]) = "Pending"
    /\ StateOf(updated, NameOrder[2]) = "Pending"
    /\ violations = <<MissingGatekeeper>>

\* The permutations of 1..n
Orders(n) == {p \in [1..n -> 1..n] : \A i, j \in 1..n : p[i] = p[j] => i = j}

\* evaluate gives, for every permutation of the outcome list, the updated
\* ledger and the set of violations of this run
SameForEveryOrder ==
    \A p \in Orders(Len(results)) :
        LET e == evaluate(status, [i \in 1..Len(results) |-> results[p[i]]],
                          history_snapshots)
        IN  /\ e.updated = updated
            /\ Range(e.violations) = Range(violations)

\* A gatekeeper test that the prior ledger does not track is named by a Passed
\* and by a Failed outcome
NewGatekeeperBothWays ==
    \E t \in NamedTests :
        /\ IsGatekeeper(t) /\ ~Tracked(status, t)
        /\ NamedWith(t, "Passed") /\ NamedWith(t, "Failed")

\* C30 as stated. For every ledger and history, every permutation of the
\* same outcome entries yields the same updated ledger and the same set of
\* violations.
C30_AsStated == Returned => SameForEveryOrder

\* C30, amended. For every ledger and history, every permutation of the same
\* outcome entries yields the same set of violations, and the same updated
\* ledger unless a gatekeeper test that the prior ledger does not track is
\* named by both a Passed and a Failed outcome (the later of the two then
\* decides whether it is recorded Passing or Pending).
C30_OrderIndependent ==
    Returned =>
        /\ ~NewGatekeeperBothWays => SameForEveryOrder
        /\ \A p \in Orders(Len(results)) :
              Range(evaluate(status, [i \in 1..Len(results) |-> results[p[i]]],
                             history_snapshots).violations) = Range(violations)

\* An untracked test named Passed and then Failed: it is recorded Pending and
\* reported as NewTestPassed, in this order and in the other
C30_Witness ==
    /\ Returned
    /\ Len(results) = 2
    /\ results[1].name = results[2].name
    /\ results[1].outcome = "Passed" /\ results[2].outcome = "Failed"
    /\ ~IsGatekeeper(results[1].name)
    /\ ~Tracked(status, results[1].name)
    /\ StateOf(updated, results[1].name) = "Pending"
    /\ NewTestPassed(results[1].name) \in Range(violations)
    /\ SameForEveryOrder

\* C31. The gatekeeper is one fixed reserved identifier, matched by exact
\* string equality: a test whose name is not equal to that identifier does not
\* satisfy the presence check, yields NewTestPassed when it passes on its first
\* appearance, and is not exempt in the history check.
C31_ExactIdentifier ==
    Returned =>
        /\ (\A i \in DOMAIN results : results[i].name /= GATEKEEPER_TEST_NAME)
              => MissingGatekeeper \in Range(violations)
        /\ \A t \in Names \ {GATEKEEPER_TEST_NAME} :
              /\ (~Tracked(status, t) /\ NamedWith(t, "Passed"))
                    => NewTestPassed(t) \in Range(violations)
              /\ (/\ FirstAppearsPassing(history_snapshots, t)
                  /\ ~GloballyGrandfathered(history_snapshots, status.baseline /= None, t)
                  /\ ~PerTestGrandfathered(history_snapshots, t))
                    => \E v \in Range(violations) : v.kind = "SkippedPending" /\ v.test = t


\* C37. evaluate changes only the state of an entry: for every test of the
\* prior ledger, its per-test baseline in the updated ledger equals its
\* per-test baseline in the prior ledger, also when the test is promoted
\* from Pending to Passing.
C37_PerTestBaselineKept ==
    Returned =>
        \A t \in DOMAIN status.tests :
            /\ t \in DOMAIN updated.tests
            /\ baseline(updated.tests[t]) = baseline(status.tests[t])

\* The second call: evaluate on the updated ledger of the first call, with
\* the same outcome list and history
SecondCall == evaluate(updated, results, history_snapshots)

\* The kinds of the violations of the list viol
KindsOf(viol) == {viol[i].kind : i \in DOMAIN viol}

\* Some test is named with outcome Passed and with outcome Failed
PassedAndFailed == \E t \in Names : NamedWith(t, "Passed") /\ NamedWith(t, "Failed")

\* C38. The ledger update is a fixpoint when no test of the outcome list has
\* both passed and failed: calling evaluate again with the updated ledger of
\* a first call and the same outcome list and history returns an updated
\* ledger equal to its input, and no violation kind that was absent in the
\* first call appears in the second.
C38_Fixpoint ==
    (Returned /\ ~PassedAndFailed) =>
        /\ SecondCall.updated = updated
        /\ KindsOf(SecondCall.violations) \subseteq KindsOf(violations)

\* C38 witness: a first call that added a test as Pending and promoted
\* another, on an outcome list in which no test has both passed and failed.
C38_Witness ==
    /\ Returned
    /\ ~PassedAndFailed
    /\ \E t \in DOMAIN updated.tests : ~Tracked(status, t) /\ StateOf(updated, t) = "Pending"
    /\ \E t \in DOMAIN status.tests :
          StateOf(status, t) = "Pending" /\ StateOf(updated, t) = "Passing"
    /\ SecondCall.updated = updated

\* C38 as stated. Calling evaluate again with the updated ledger of a first
\* call and the same outcome list and history returns an updated ledger
\* equal to its input, and no violation kind that was absent in the first
\* call appears in the second.
C38_AsStated ==
    Returned =>
        /\ SecondCall.updated = updated
        /\ KindsOf(SecondCall.violations) \subseteq KindsOf(violations)

\* The violations of evaluate that are of the rules check_ratchet has, in
\* order, as RatchetViolation values
SharedViolations ==
    LET shared == SelectSeq(violations,
                            LAMBDA v : v.kind \in {"NewTestPassed", "Regression", "TestDisappeared"})
    IN  [i \in DOMAIN shared |-> RatchetViolation(shared[i].kind, shared[i].test)]

\* C40. The unified evaluate and the legacy check_ratchet agree on the rules
\* they share: for every ledger, outcome list and history they return the
\* same updated ledger, and evaluate's NewTestPassed, Regression and
\* TestDisappeared violations are exactly check_ratchet's violations;
\* evaluate differs only by adding MissingGatekeeper and SkippedPending.
C40_AgreesWithLegacy ==
    Returned =>
        /\ check_ratchet(status, results).updated = updated
        /\ check_ratchet(status, results).violations = SharedViolations
        /\ \A v \in Range(violations) :
              v.kind \in {"NewTestPassed", "Regression", "TestDisappeared",
                          "MissingGatekeeper", "SkippedPending"}

\* C40 witness: evaluate returned a violation of each kind only it has
\* together with violations that check_ratchet returns too, and changed the
\* ledger.
C40_Witness ==
    /\ Returned
    /\ MissingGatekeeper \in Range(violations)
    /\ \E v \in Range(violations) : v.kind = "SkippedPending"
    /\ check_ratchet(status, results).violations /= <<>>
    /\ updated /= status

-----------------------------------------------------------------------------
(* Properties of the ledger file, checked under StatusSpec *)

\* C32. Ledger round-trip: for every ledger, with and without per-test
\* baselines and a ledger-wide baseline, save followed by load yields a
\* ledger whose tests map and baseline equal the original's; only the
\* schema annotation may differ.
C32_RoundTrip ==
    pc = "reloaded" =>
        /\ loaded.ok
        /\ loaded.value.tests = status.tests
        /\ loaded.value.baseline = status.baseline

\* C32 witness: a ledger with a per-test baseline and a ledger-wide baseline
\* was saved without a schema annotation and loaded back with one.
C32_Witness ==
    /\ pc = "reloaded"
    /\ loaded.ok
    /\ status.baseline /= None
    /\ status.schema = None
    /\ loaded.value.schema = SCHEMA_URL
    /\ \E n \in DOMAIN status.tests : baseline(status.tests[n]) /= None
    /\ \E n \in DOMAIN status.tests : baseline(status.tests[n]) = None

\* C33. The ledger schema is closed: loading content with an unknown
\* top-level field or an unknown per-entry field fails with a parse error
\* and yields no ledger; the schema annotation is the only extra top-level
\* field accepted.
C33_ClosedSchema ==
    pc = "loaded" =>
        /\ (\/ ~(contents.keys \subseteq {"$schema", "tests", "baseline"})
            \/ \E n \in DOMAIN contents.tests :
                  /\ contents.tests[n].form = "object"
                  /\ ~(contents.tests[n].keys \subseteq {"state", "baseline"}))
              => (~loaded.ok /\ loaded.error.kind = "parse" /\ loaded.value = <<>>)
        /\ (/\ contents.json
            /\ contents.keys \in {{"$schema", "tests"}, {"$schema", "tests", "baseline"}}
            /\ \A n \in DOMAIN contents.tests : TestEntry_deserialize(contents.tests[n]).ok)
              => (loaded.ok /\ loaded.value.schema = contents.schema)

\* C33 witness: a document whose only fault is an unknown top-level field
\* was rejected.
C33_Witness ==
    /\ pc = "loaded"
    /\ contents.json
    /\ contents.keys = {"tests", "future_field"}
    /\ \A n \in DOMAIN contents.tests : TestEntry_deserialize(contents.tests[n]).ok
    /\ contents.tests /= EmptyMap
    /\ ~loaded.ok

\* A document whose only fault is an unknown per-entry field was rejected.
C33_EntryWitness ==
    /\ pc = "loaded"
    /\ contents.keys = {"$schema", "tests"}
    /\ \E n \in DOMAIN contents.tests : "note" \in contents.tests[n].keys
    /\ ~loaded.ok

-----------------------------------------------------------------------------
(* Properties of parse_nextest_output, checked under ParseSpec *)

\* The call of parse_nextest_output has returned
Parsed == pc = "parse_done"

\* The line is a JSON test event with event ok, failed or ignored and a name
IsTestEvent(line) ==
    /\ line.json
    /\ {"type", "event", "name"} \subseteq line.keys
    /\ line.type = "test"
    /\ line.event \in {"ok", "failed", "ignored"}

\* The positions of the output's test events
TestEventLines == {i \in DOMAIN stdout : IsTestEvent(stdout[i])}

\* The rank of position i among the positions of the test events
RankOf(i) == Cardinality({j \in TestEventLines : j <= i})

\* C34. parse_nextest_output returns exactly one result for each input line
\* that is a JSON test event with event ok, failed or ignored and a name, in
\* input order, mapping ok to Passed, failed to Failed and ignored to
\* Ignored, the result name being the text after the first $ of the event
\* name; every other line contributes nothing.
C34_ParseNextest ==
    Parsed =>
        /\ Len(results) = Cardinality(TestEventLines)
        /\ \A i \in TestEventLines :
              LET r    == results[RankOf(i)]
                  line == stdout[i]
              IN  /\ line.event = "ok" => r.outcome = "Passed"
                  /\ line.event = "failed" => r.outcome = "Failed"
                  /\ line.event = "ignored" => r.outcome = "Ignored"
                  /\ \A k \in DOMAIN line.name :
                        (line.name[k] = "$" /\ \A j \in 1..(k - 1) : line.name[j] /= "$")
                            => r.name = SubSeq(line.name, k + 1, Len(line.name))

\* C34 witness: an output with a line that is not a test event before a
\* test event whose name has two $ was parsed into one result.
C34_Witness ==
    /\ Parsed
    /\ Len(stdout) = 2
    /\ ~IsTestEvent(stdout[1])
    /\ IsTestEvent(stdout[2])
    /\ Cardinality({k \in DOMAIN stdout[2].name : stdout[2].name[k] = "$"}) = 2
    /\ Len(results) = 1

-----------------------------------------------------------------------------
(* Properties of collect_history_snapshots, checked under WalkSpec *)

\* collect_history_snapshots has returned
Walked == pc = "walk_done"

\* The position of the commit c in the repository, 0 when it has none
PositionInRepo(c) ==
    IF \E i \in DOMAIN commits : commits[i].commit = c
      THEN CHOOSE i \in DOMAIN commits : commits[i].commit = c
      ELSE 0

\* The positions of the commits at or after the baseline: all of them
\* without a baseline, none when the baseline is no commit of the repository
FromBaseline ==
    IF status.baseline = None THEN DOMAIN commits
    ELSE IF PositionInRepo(status.baseline) = 0 THEN {}
    ELSE {i \in DOMAIN commits : i >= PositionInRepo(status.baseline)}

\* The positions at or after the baseline whose ledger file does not parse
Corrupt == {i \in FromBaseline : commits[i].file.exists /\ ~commits[i].file.parseable}

\* C22. collect_history_snapshots returns an error, not a snapshot list,
\* when a baseline commit is given that the traversal from the head never
\* visits.
C22_UnvisitedBaselineFails ==
    (Walked /\ status.baseline /= None /\ PositionInRepo(status.baseline) = 0)
        => ~walk.ok

WithLedger == {i \in FromBaseline : commits[i].file.exists}

\* C35. collect_history_snapshots returns exactly one snapshot for each
\* commit visited at or after the baseline commit (baseline inclusive; all
\* visited commits without a baseline) whose tree contains the ledger file,
\* oldest to newest; commits before the baseline contribute nothing and
\* commits without the ledger file are skipped without ending the sequence.
C35_SnapshotPerCommit ==
    (Walked /\ walk.ok) =>
        /\ Len(walk.value) = Cardinality(WithLedger)
        /\ \A i \in WithLedger :
              walk.value[Cardinality({j \in WithLedger : j <= i})]
                  = HistorySnapshot(commits[i].commit, commits[i].file.content)
        /\ \A k, l \in DOMAIN walk.value :
              k < l => PositionInRepo(walk.value[k].commit) < PositionInRepo(walk.value[l].commit)

\* C35 witness: the baseline commit has the ledger file, the next commit
\* does not, the one after it does, and two snapshots were returned.
C35_Witness ==
    /\ Walked
    /\ walk.ok
    /\ Len(commits) = 3
    /\ status.baseline = commits[1].commit
    /\ commits[1].file.exists
    /\ ~commits[2].file.exists
    /\ commits[3].file.exists
    /\ Len(walk.value) = 2

\* A commit before the baseline has the ledger file and contributed nothing.
C35_BeforeBaseline ==
    /\ Walked
    /\ walk.ok
    /\ Len(commits) = 3
    /\ status.baseline = commits[2].commit
    /\ commits[1].file.exists
    /\ commits[3].file.exists
    /\ Len(walk.value) = 1

-----------------------------------------------------------------------------
(* Properties of init, checked under InitSpec *)

\* init built and saved a ledger: results are the suite's outcomes, status the
\* ledger built from them, disk the file written
Initialized == pc = "init_done"

\* The position of the last outcome of t other than Ignored, 0 when t has none
LastRan(t) ==
    LET ran == {i \in DOMAIN results : results[i].name = t /\ results[i].outcome /= "Ignored"}
    IN  IF ran = {} THEN 0 ELSE CHOOSE i \in ran : \A j \in ran : j <= i

\* C25 as stated. Initialization records the then-current head commit as
\* the ledger baseline, and records every test that Passed as Passing, every
\* test that Failed as Pending, and no test that was Ignored.
C25_AsStated ==
    Initialized =>
        /\ disk.content.baseline = get_head_commit(commits)
        /\ \A t \in Names :
              /\ NamedWith(t, "Passed") => StateOf(disk.content, t) = "Passing"
              /\ NamedWith(t, "Failed") => StateOf(disk.content, t) = "Pending"
              /\ NamedWith(t, "Ignored") => ~Tracked(disk.content, t)

\* C25, amended. Initialization records the then-current head commit as the
\* ledger baseline and writes a ledger in which every test whose last outcome
\* other than Ignored is Passed is Passing, every test whose last outcome
\* other than Ignored is Failed is Pending, each without a per-test baseline,
\* and a test with no outcome other than Ignored is not recorded.
C25_InitSnapshot ==
    Initialized =>
        /\ disk.exists /\ disk.parseable
        /\ disk.content.baseline = get_head_commit(commits)
        /\ \A t \in Names :
              IF LastRan(t) = 0 THEN ~Tracked(disk.content, t)
              ELSE /\ Tracked(disk.content, t)
                   /\ disk.content.tests[t] =
                         Simple(IF results[LastRan(t)].outcome = "Passed"
                                  THEN "Passing" ELSE "Pending")

\* init at the head c2 with a passing test and an ignored one
C25_Witness ==
    /\ Initialized
    /\ get_head_commit(commits) = CommitIds[2]
    /\ disk.content.baseline = CommitIds[2]
    /\ results = <<[name |-> NameOrder[1], outcome |-> "Passed"],
                   [name |-> NameOrder[2], outcome |-> "Ignored"]>>
    /\ StateOf(disk.content, NameOrder[1]) = "Passing"
    /\ ~Tracked(disk.content, NameOrder[2])

\* C26. Initialization refuses to run when a ledger file already exists: the
\* process exits with failure and leaves the file, its tests and its baseline
\* as they were, so no init step changes an existing ledger file.
C26_InitRefused ==
    [][disk.exists =>
          /\ disk' = disk
          /\ pc' \in {"init_done", "init_refused", "init_save_failed"}
                => (pc' = "init_refused" /\ exit_code' = "failure")]_vars

\* init refused on a ledger whose baseline is c1 while the head is another
\* commit
C26_Witness ==
    /\ pc = "init_refused"
    /\ exit_code = "failure"
    /\ disk.exists /\ disk.parseable
    /\ disk.content.baseline = CommitIds[1]
    /\ disk.content.tests /= EmptyMap
    /\ get_head_commit(commits) = CommitIds[2]

-----------------------------------------------------------------------------
(* Properties of adoption, checked under RepoSpec *)

\* The tests init recorded as Passing: the ledger of init had them and they
\* were never Pending in a ledger of the tool
PreExisting == initial \ wasPending

\* A commit of the repository has the ledger file in its tree
LedgerCommitted == \E i \in DOMAIN commits : commits[i].file.exists

\* C27. Adoption: after init on a project whose existing tests already
\* pass, followed by a commit of the ledger, every later run reports neither
\* NewTestPassed nor SkippedPending for those pre-existing tests, while a test
\* added after adoption that passes on its first appearance is still rejected.
C27_Adoption ==
    (Evaluated /\ LedgerCommitted) =>
        /\ \A t \in PreExisting :
              \A v \in Range(violations) :
                  v.kind \in {"NewTestPassed", "SkippedPending"} => v.test /= t
        /\ \A t \in Names \ initial :
              (~Tracked(status, t) /\ ~IsGatekeeper(t) /\ NamedWith(t, "Passed"))
                  => /\ NewTestPassed(t) \in Range(violations)
                     /\ exit_code = "failure"

====
